---------------------------- MODULE Spec2Model ----------------------------
(***************************************************************************)
(* Model of the market data ingestion pipeline of hmm-service              *)
(* (data_pipeline.py): DataQualityValidator, KafkaStreamer,                *)
(* PostgreSQLStorage and DataIngestionPipeline with its producers          *)
(* (ingest_data_point callers) and its batch-flush tasks                   *)
(* (_batch_processor).                                                     *)
(*                                                                         *)
(* Scheduling is asyncio's: a coroutine runs without interleaving until it *)
(* awaits something that is not ready.  ingest_data_point only suspends at *)
(* `await self.data_queue.put` when the queue is full; _batch_processor    *)
(* only suspends in `asyncio.wait_for(self.data_queue.get(), 0.1)`.  Every *)
(* action below is one such uninterrupted run.                             *)
(***************************************************************************)
EXTENDS Integers, Sequences, FiniteSets, TLC

(***************************************************************************)
(* Bounds of the model.                                                    *)
(***************************************************************************)
\* number of concurrent callers of ingest_data_point
NumProducers == 2
\* calls each producer makes
MaxCalls == 2
\* asyncio.Queue(maxsize=10000), scaled down so that a full queue is reached
QueueMaxSize == 2
\* DataQualityValidator.max_history = 100, scaled down (kept above the
\* warm-up of 10 so that the anomaly comparison runs and eviction happens)
MaxHistory == 12
\* largest configured batch_size
MaxBatchSize == 2
\* largest configured batch_timeout, in clock ticks
MaxBatchTimeout == 2
\* batch-flush task slots (tasks created by start() and not yet finished)
MaxTasks == 2
\* calls of the single producer of the anomaly specification
MaxAnomalyCalls == 13
\* the number of direct validations: enough to fill a history, evict from
\* it and still reject a point
MaxValidations == 15
\* the sections of a manager's config that differ from the default one
MaxConfigured == 2
\* the points one connector produces
MaxProduced == 1
\* calls of update_config, enable_service and disable_service on one
\* ConfigurationManager
MaxOps == 2
\* environment variables of the whitelist that are set at once
MaxEnvSet == 1
\* signals the process receives
MaxSignals == 2

(***************************************************************************)
(* Program constants.                                                      *)
(***************************************************************************)
\* `if len(history) > 10`
WarmUp == 10
\* `list(history)[-10:]`
RecentWindow == 10
\* `'latency_samples': deque(maxlen=1000)`
LatencyMaxLen == 1000
\* `asyncio.Queue(maxsize=10000)`, which the queue of the model has as
\* QueueMaxSize
QueueCapacity == 10000
\* `config.get('batch_size', 100)`
DefaultBatchSize == 100
\* `config.get('batch_timeout', 1.0)`
DefaultBatchTimeout == 1

\* the clock reading: time differences are exact up to MaxTime - 1 ticks
MaxTime == MaxBatchTimeout + 1

Producers == 1..NumProducers
TaskIds == 1..MaxTasks

(***************************************************************************)
(* MarketDataPoint.  symbol is a str, or a value without .lower() (a JSON  *)
(* null or number that FinnhubConnector passes through as trade['s']);     *)
(* price is a number, or None (trade['p'] null), told apart by price_type; *)
(* timestamp 0 stands for a falsy timestamp (None); source names the       *)
(* producer and metadata is its opaque payload (here the call's index).    *)
(***************************************************************************)
Symbols == {"AAPL", "Msft"}
NonStrSymbol == "<non-str>"

MarketDataPoint(sym, ts, pr, prt, vol, src, md) ==
    [symbol |-> sym, timestamp |-> ts, price |-> pr, price_type |-> prt,
     volume |-> vol, source |-> src, metadata |-> md]

\* the (symbol, timestamp, price, price_type, volume) shapes producers submit
PointShapes ==
    { <<"AAPL", 1, 2, "float", 1>>,          \* valid, timestamp given
      <<"Msft", 0, 4, "float", 0>>,          \* valid, zero volume, no timestamp
      <<"AAPL", 1, 0, "float", 1>>,          \* price = 0
      <<"Msft", 0, -1, "float", -1>>,        \* price < 0 and volume < 0
      <<"AAPL", 1, 2, "float", -1>>,         \* volume < 0
      <<NonStrSymbol, 1, 2, "float", 1>>,    \* symbol is not a str
      <<"AAPL", 1, 0, "NoneType", 1>> }      \* price is None

PointOf(shape, src, md) ==
    MarketDataPoint(shape[1], shape[2], shape[3], shape[4], shape[5], src, md)

\* the shapes of valid points
ValidShapes == { s \in PointShapes : s[4] = "float" /\ s[3] > 0 /\ s[5] >= 0 }

\* the points producer p may submit as its k-th call
InputPoints(p, k) == { PointOf(s, p, k) : s \in PointShapes }

\* the valid points with a string symbol that producer p may submit as its
\* k-th call
ValidInputPoints(p, k) ==
    { PointOf(s, p, k) : s \in { v \in ValidShapes : v[1] \in Symbols } }

\* str.lower() on the symbols of the model
Lower(s) ==
    CASE s = "AAPL" -> "aapl"
      [] s = "Msft" -> "msft"
      [] s = "TRUE" -> "true"
      [] OTHER -> s

VARIABLES
    config,         \* the dict DataIngestionPipeline was constructed with
    running,        \* self.running
    data_queue,     \* self.data_queue (FIFO)
    metrics,        \* self.metrics
    price_history,  \* self.validator.price_history
    anomaly_logged, \* the last validate_price_data call logged the anomaly warning
    kafka,          \* self.kafka_streamer: "none" or the producer's state
    topics_created, \* KafkaStreamer.topics_created
    publish_calls,  \* every publish_data call: [topic, point, result]
    postgres,       \* self.postgres_storage: "none" or the pool's state
    market_data,    \* rows committed to table market_data
    flushed,        \* every batch the flush branch handled: [batch, stored, task]
    tasks,          \* the _batch_processor tasks
    prod,           \* the callers of ingest_data_point
    tally,          \* points submitted, by kind, and calls returned, by result
    last_call,      \* the last start() or stop() call, and how it ended
    now,            \* time.time()
    manager,        \* the DataConnectorManager and its collection tasks
    conf,           \* the ConfigurationManager and what it was loaded from
    signal_handler, \* whose _signal_handler the process has installed
    checked_out     \* connections taken from the storage pool and not put back

vars == <<config, running, data_queue, metrics, price_history, anomaly_logged,
          kafka, topics_created, publish_calls, postgres, market_data, flushed,
          tasks, prod, tally, last_call, now, manager, conf, signal_handler,
          checked_out>>


NoPoint == MarketDataPoint("", 0, 0, "float", 0, 0, 0)

\* a deque without maxlen: nothing is evicted
DequeAppend_unbounded(d, x, n) == Append(d, x)

\* collections.deque(maxlen=n).append(x)
DequeAppend(d, x, n) ==
    IF Len(d) >= n THEN Tail(d) \o <<x>> ELSE Append(d, x)

RECURSIVE Sum(_)
Sum(s) == IF s = <<>> THEN 0 ELSE Head(s) + Sum(Tail(s))

Abs(x) == IF x < 0 THEN -x ELSE x

(***************************************************************************)
(* DataQualityValidator                                                    *)
(***************************************************************************)
\* list(history)[-10:]
RecentPrices(history) ==
    IF Len(history) <= RecentWindow THEN history
    ELSE SubSeq(history, Len(history) - RecentWindow + 1, Len(history))

\* len(history) > 10 and abs(price - avg_price) / avg_price > 0.5, with
\* avg_price = sum(recent) / len(recent) > 0, cleared of its divisions
IsAnomaly(history, price) ==
    /\ Len(history) > WarmUp
    /\ LET recent == RecentPrices(history)
       IN  2 * Abs(Len(recent) * price - Sum(recent)) > Sum(recent)

\* validate_body with `price < 0` for `price <= 0`: a zero price passes
validate_body_zero_price(data_point, ph) ==
    IF data_point.price_type # "float"
    THEN [raised |-> TRUE, ok |-> FALSE, price_history |-> ph,
          anomaly |-> FALSE]
    ELSE IF data_point.price < 0 \/ data_point.volume < 0
    THEN [raised |-> FALSE, ok |-> FALSE, price_history |-> ph,
          anomaly |-> FALSE]
    ELSE [raised |-> FALSE, ok |-> TRUE,
          price_history |->
              [ph EXCEPT ![data_point.symbol] =
                  DequeAppend(@, data_point.price, MaxHistory)],
          anomaly |-> IsAnomaly(ph[data_point.symbol], data_point.price)]

\* the body of validate_price_data's try block: whether it raised, the
\* result, the price_history it leaves and whether the anomaly warning was
\* logged.  A None price raises TypeError at `data_point.price <= 0`.
validate_body(data_point, ph) ==
    IF data_point.price_type # "float"
    THEN [raised |-> TRUE, ok |-> FALSE, price_history |-> ph,
          anomaly |-> FALSE]
    ELSE IF data_point.price <= 0
    THEN [raised |-> FALSE, ok |-> FALSE, price_history |-> ph,
          anomaly |-> FALSE]
    ELSE IF data_point.volume < 0
    THEN [raised |-> FALSE, ok |-> FALSE, price_history |-> ph,
          anomaly |-> FALSE]
    ELSE LET history == ph[data_point.symbol]
         IN  [raised |-> FALSE, ok |-> TRUE,
              price_history |->
                  [ph EXCEPT ![data_point.symbol] =
                      DequeAppend(history, data_point.price, MaxHistory)],
              anomaly |-> IsAnomaly(history, data_point.price)]

\* validate_price_data without its `except Exception`
validate_price_data_no_handler(data_point, ph) ==
    validate_body(data_point, ph)

\* validate_price_data: `except Exception` logs and returns False
validate_price_data(data_point, ph) ==
    LET body == validate_body(data_point, ph)
    IN  IF body.raised
        THEN [body EXCEPT !.raised = FALSE, !.ok = FALSE]
        ELSE body

(***************************************************************************)
(* KafkaStreamer.  kafka is "none" (self.kafka_streamer is None),          *)
(* "no_producer" (_initialize_kafka failed: producer is None), "open" or   *)
(* "closed" (after close()).  io says what the broker does to this call:   *)
(* whether create_topics and producer.send succeed.                        *)
(***************************************************************************)
IOOutcomes == [create : BOOLEAN, send : BOOLEAN]

\* the topic without .lower()
TopicOf_raw(data_point) == "market_data_" \o data_point.symbol

\* f"market_data_{data_point.symbol.lower()}"
TopicOf(data_point) == "market_data_" \o Lower(data_point.symbol)

\* create_topic: the topics_created it leaves
create_topic(topic, io) ==
    IF topic \in topics_created THEN topics_created
    ELSE IF io.create THEN topics_created \cup {topic}
    ELSE topics_created

\* publish_data's return value; send on a closed producer raises
publish_result(io) ==
    IF kafka = "no_producer" THEN FALSE
    ELSE IF kafka = "closed" THEN FALSE
    ELSE io.send

publish_data(topic, data_point, io) ==
    /\ topics_created' =
           IF kafka = "no_producer" THEN topics_created
           ELSE create_topic(topic, io)
    /\ publish_calls' = Append(publish_calls,
           [topic |-> topic, point |-> data_point, result |-> publish_result(io)])

(***************************************************************************)
(* PostgreSQLStorage.  postgres is "none" (self.postgres_storage is None), *)
(* "no_pool" (_initialize_pool failed), "open" or "closed" (closeall()).   *)
(* write_ok says whether the insert and commit succeed.                    *)
(***************************************************************************)
\* store_batch's return value: getconn on a closed pool raises PoolError
store_result(data_points, write_ok) ==
    IF postgres = "no_pool" \/ data_points = <<>> THEN FALSE
    ELSE IF postgres = "closed" THEN FALSE
    ELSE write_ok

\* store_batch committing the rows written before the failing one
store_batch_partial(data_points, write_ok) ==
    IF postgres \in {"none", "no_pool", "closed"} \/ data_points = <<>>
    THEN market_data
    ELSE IF write_ok THEN market_data \o data_points
    ELSE Append(market_data, Head(data_points))

\* the rows of market_data after store_batch: one transaction, all or none
store_batch(data_points, write_ok) ==
    IF store_result(data_points, write_ok)
    THEN market_data \o data_points
    ELSE market_data

(***************************************************************************)
(* DataIngestionPipeline                                                   *)
(***************************************************************************)
\* the configurations a pipeline is constructed with: batch_size,
\* batch_timeout, and what __init__ makes of the kafka and postgresql
\* sections (enabled or not, library importable or not, connection made or
\* not)
Configs ==
    [batch_size : 1..MaxBatchSize, batch_timeout : 1..MaxBatchTimeout,
     kafka : {"none", "no_producer", "open"},
     postgres : {"none", "no_pool", "open"}]

\* a caller of ingest_data_point: where it is ("idle": not in a call, "put":
\* suspended in put()), how many calls it made and how many returned, the
\* point it passed as it was at the call (arg) and as it is now (obj), how
\* the last call ended (result, or raised: an exception left the call), and
\* the call's start_time
NewProducer ==
    [pc |-> "idle", calls |-> 0, returns |-> 0, arg |-> NoPoint,
     obj |-> NoPoint, result |-> FALSE, raised |-> FALSE, start_time |-> 0]

NoTask == [pc |-> "none", batch |-> <<>>, last_flush |-> 0]

\* __init__(config)
Construct(configs) ==
    /\ config \in configs
    /\ running = FALSE
    /\ data_queue = <<>>
    /\ metrics = [total_processed |-> 0, valid_points |-> 0,
                  rejected_points |-> 0, start_time |-> 0,
                  last_batch_time |-> 0, latency_samples |-> <<>>]
    /\ price_history = [s \in Symbols \cup {NonStrSymbol} |-> <<>>]
    /\ anomaly_logged = FALSE
    /\ kafka = config.kafka
    /\ topics_created = {}
    /\ publish_calls = <<>>
    /\ postgres = config.postgres
    /\ market_data = <<>>
    /\ flushed = <<>>
    /\ tasks = [t \in TaskIds |-> NoTask]
    /\ prod = [p \in Producers |-> NewProducer]
    /\ tally = [invalid |-> 0, valid |-> 0, returned_true |-> 0,
                returned_false |-> 0]
    /\ last_call = "none"
    /\ now = MaxTime
    /\ checked_out = 0

\* the kinds of point the claims about ingest tell apart
IsInvalidPoint(pt) ==
    pt.price_type = "float" /\ (pt.price <= 0 \/ pt.volume < 0)

IsValidPoint(pt) ==
    pt.price_type = "float" /\ pt.price > 0 /\ pt.volume >= 0

Submitted(t, pt) ==
    [t EXCEPT !.invalid = @ + (IF IsInvalidPoint(pt) THEN 1 ELSE 0),
              !.valid = @ + (IF IsValidPoint(pt) THEN 1 ELSE 0)]

Returned(t, result) ==
    [t EXCEPT !.returned_true = @ + (IF result THEN 1 ELSE 0),
              !.returned_false = @ + (IF result THEN 0 ELSE 1)]

\* `if not data_point.timestamp: data_point.timestamp = datetime.now(...)`:
\* the caller's object itself is assigned to
Stamp(data_point) ==
    IF data_point.timestamp = 0
    THEN [data_point EXCEPT !.timestamp = now]
    ELSE data_point

\* a queue that takes one item more than maxsize
QueueFull_off_by_one(q) == Len(q) > QueueMaxSize

\* asyncio.Queue.full()
QueueFull(q) == Len(q) >= QueueMaxSize

\* building the topic raises AttributeError for a symbol without .lower()
TopicRaises(data_point) ==
    kafka # "none" /\ data_point.symbol = NonStrSymbol

\* ingest_data_point from the return of put() to its own return: topic and
\* publish, the counters, the latency sample.  pr is the caller's frame.  An
\* exception raised here reaches the handler at the end of
\* ingest_data_point, which counts a rejection and returns False.
AfterPut(p, pr) ==
    IF TopicRaises(pr.obj)
    THEN /\ metrics' = [metrics EXCEPT !.rejected_points = @ + 1]
         /\ UNCHANGED <<topics_created, publish_calls>>
         /\ prod' = [prod EXCEPT ![p] =
                [pr EXCEPT !.pc = "idle", !.returns = @ + 1,
                           !.result = FALSE, !.start_time = 0]]
    ELSE /\ IF kafka = "none"
            THEN UNCHANGED <<topics_created, publish_calls>>
            ELSE \E io \in IOOutcomes :
                     publish_data(TopicOf(pr.obj), pr.obj, io)
         /\ metrics' =
                [metrics EXCEPT
                    !.total_processed = @ + 1,
                    !.valid_points = @ + 1,
                    !.latency_samples =
                        DequeAppend(@, now - pr.start_time, LatencyMaxLen)]
         /\ prod' = [prod EXCEPT ![p] =
                [pr EXCEPT !.pc = "idle", !.returns = @ + 1,
                           !.result = TRUE, !.start_time = 0]]

\* ingest_data_point(data_point) by producer p, up to its return or up to
\* its suspension in put() on a full queue.  The caller's own state (a
\* connector task of the manager, if the caller is one) is the caller's.
IngestDataPoint(p, data_point) ==
    /\ prod[p].pc = "idle"
    /\ LET v == validate_price_data(data_point, price_history)
           pr0 == [prod[p] EXCEPT !.calls = @ + 1, !.arg = data_point,
                                  !.obj = data_point, !.start_time = now]
       IN  /\ price_history' = v.price_history
           /\ anomaly_logged' = v.anomaly
           /\ IF v.raised
              THEN \* an exception left validate_price_data: the handler at
                   \* the end of ingest_data_point
                   /\ metrics' = [metrics EXCEPT !.rejected_points = @ + 1]
                   /\ prod' = [prod EXCEPT ![p] =
                          [pr0 EXCEPT !.returns = @ + 1, !.result = FALSE,
                                      !.start_time = 0]]
                   /\ tally' = Returned(Submitted(tally, data_point), FALSE)
                   /\ UNCHANGED <<data_queue, topics_created, publish_calls>>
              ELSE IF ~v.ok
              THEN /\ metrics' = [metrics EXCEPT !.rejected_points = @ + 1]
                   /\ prod' = [prod EXCEPT ![p] =
                          [pr0 EXCEPT !.returns = @ + 1, !.result = FALSE,
                                      !.start_time = 0]]
                   /\ tally' = Returned(Submitted(tally, data_point), FALSE)
                   /\ UNCHANGED <<data_queue, topics_created, publish_calls>>
              ELSE LET pr1 == [pr0 EXCEPT !.obj = Stamp(data_point)]
                   IN  IF ~QueueFull(data_queue)
                       THEN /\ data_queue' = Append(data_queue, pr1.obj)
                            /\ AfterPut(p, pr1)
                            /\ tally' = Returned(Submitted(tally, data_point),
                                                 ~TopicRaises(pr1.obj))
                       ELSE /\ prod' = [prod EXCEPT ![p] =
                                   [pr1 EXCEPT !.pc = "put"]]
                            /\ tally' = Submitted(tally, data_point)
                            /\ UNCHANGED <<data_queue, metrics,
                                           topics_created, publish_calls>>
    /\ UNCHANGED <<conf, signal_handler, config, running, kafka, postgres, checked_out,
                   market_data, flushed, tasks, last_call, now>>

\* a producer suspended in put() is woken once the queue has a free slot
PutResume(p) ==
    /\ prod[p].pc = "put"
    /\ ~QueueFull(data_queue)
    /\ data_queue' = Append(data_queue, prod[p].obj)
    /\ AfterPut(p, prod[p])
    /\ tally' = Returned(tally, ~TopicRaises(prod[p].obj))
    /\ UNCHANGED <<manager, conf, signal_handler, config, running, price_history, anomaly_logged, kafka,
                   postgres, checked_out, market_data, flushed, tasks, last_call, now>>

(***************************************************************************)
(* _batch_processor.  A task is "new" (created by start(), not yet run),   *)
(* "wait" (suspended in wait_for(get)), or "done" (its loop has ended; the *)
(* batch it held is kept for inspection).                                  *)
(***************************************************************************)
\* should_flush without its timeout clause
should_flush_size_only(batch, last_flush) ==
    Len(batch) >= config.batch_size

\* should_flush with `len(batch) > batch_size` for `>=`
should_flush_late(batch, last_flush) ==
    \/ Len(batch) > config.batch_size
    \/ (batch # <<>> /\ now - last_flush >= config.batch_timeout)

\* should_flush of one loop iteration
should_flush(batch, last_flush) ==
    \/ Len(batch) >= config.batch_size
    \/ (batch # <<>> /\ now - last_flush >= config.batch_timeout)

\* the task as the loop test leaves it
AfterIteration(batch, last_flush) ==
    IF running
    THEN [pc |-> "wait", batch |-> batch, last_flush |-> last_flush]
    ELSE [pc |-> "done", batch |-> batch, last_flush |-> 0]

\* the first run of the task: batch = [], last_flush = time.time()
BatchProcessorBegin(t) ==
    /\ tasks[t].pc = "new"
    /\ tasks' = [tasks EXCEPT ![t] = AfterIteration(<<>>, now)]
    /\ UNCHANGED <<manager, conf, signal_handler, config, running, data_queue, metrics, price_history,
                   anomaly_logged, kafka, topics_created, publish_calls,
                   postgres, checked_out, market_data, flushed, prod, tally, last_call,
                   now>>

\* the rest of an iteration after wait_for returned or timed out, with the
\* batch as it is then, and the loop test that follows it
FlushStep(t, batch, write_ok) ==
    IF should_flush(batch, tasks[t].last_flush) /\ batch # <<>>
    THEN /\ market_data' =
                IF postgres = "none" THEN market_data
                ELSE store_batch(batch, write_ok)
         /\ flushed' = Append(flushed,
                [batch |-> batch, task |-> t,
                 stored |-> postgres # "none"
                            /\ store_result(batch, write_ok)])
         /\ metrics' = [metrics EXCEPT !.last_batch_time = now]
         /\ tasks' = [tasks EXCEPT ![t] = AfterIteration(<<>>, now)]
    ELSE /\ tasks' = [tasks EXCEPT ![t] =
                AfterIteration(batch, tasks[t].last_flush)]
         /\ UNCHANGED <<market_data, flushed, metrics>>

\* BatchProcessorGet reading the head of the queue without removing it
BatchProcessorGet_peek(t, write_ok) ==
    /\ tasks[t].pc = "wait"
    /\ data_queue # <<>>
    /\ data_queue' = data_queue
    /\ FlushStep(t, Append(tasks[t].batch, Head(data_queue)), write_ok)
    /\ UNCHANGED <<manager, conf, signal_handler, config, running, price_history, anomaly_logged, kafka,
                   topics_created, publish_calls, postgres, checked_out, prod, tally,
                   last_call, now>>

\* BatchProcessorGet taking the newest point of the queue instead of the
\* oldest
BatchProcessorGet_lifo(t, write_ok) ==
    /\ tasks[t].pc = "wait"
    /\ data_queue # <<>>
    /\ data_queue' = SubSeq(data_queue, 1, Len(data_queue) - 1)
    /\ FlushStep(t, Append(tasks[t].batch, data_queue[Len(data_queue)]),
                 write_ok)
    /\ UNCHANGED <<manager, conf, signal_handler, config, running,
                   price_history, anomaly_logged, kafka, topics_created,
                   publish_calls, postgres, checked_out, prod, tally, last_call, now>>

\* wait_for(self.data_queue.get(), 0.1) returns a point
BatchProcessorGet(t, write_ok) ==
    /\ tasks[t].pc = "wait"
    /\ data_queue # <<>>
    /\ data_queue' = Tail(data_queue)
    /\ FlushStep(t, Append(tasks[t].batch, Head(data_queue)), write_ok)
    /\ UNCHANGED <<manager, conf, signal_handler, config, running, price_history, anomaly_logged, kafka,
                   topics_created, publish_calls, postgres, checked_out, prod, tally,
                   last_call, now>>

\* wait_for(self.data_queue.get(), 0.1) times out on an empty queue
BatchProcessorTimeout(t, write_ok) ==
    /\ tasks[t].pc = "wait"
    /\ data_queue = <<>>
    /\ FlushStep(t, tasks[t].batch, write_ok)
    /\ UNCHANGED <<manager, conf, signal_handler, config, running, data_queue, price_history, anomaly_logged,
                   kafka, topics_created, publish_calls, postgres, checked_out, prod,
                   tally, last_call, now>>

(***************************************************************************)
(* store_batch in the steps between which a signal handler can run.  The   *)
(* call is synchronous, so no other task runs during it, but the handler   *)
(* that signal.signal installed runs in the same thread between any two    *)
(* bytecodes.  A task in store_batch is "store" (getconn() returned) and    *)
(* then "stored" (execute_values and commit are behind it, or raised).     *)
(***************************************************************************)
\* `maxconn=20`
PoolMaxConn == 20

\* a storage call is in progress
Storing == \E t \in TaskIds : tasks[t].pc \in {"store", "stored"}

\* an iteration that reaches store_batch on an open pool, up to the return
\* of self.pool.getconn()
Getconn(t, batch) ==
    /\ ~Storing
    /\ should_flush(batch, tasks[t].last_flush) /\ batch # <<>>
    /\ postgres = "open"
    /\ checked_out < PoolMaxConn
    /\ checked_out' = checked_out + 1
    /\ tasks' = [tasks EXCEPT ![t] = [@ EXCEPT !.pc = "store", !.batch = batch]]

\* wait_for returns a point and the iteration goes into store_batch
GetThenGetconn(t) ==
    /\ tasks[t].pc = "wait"
    /\ data_queue # <<>>
    /\ data_queue' = Tail(data_queue)
    /\ Getconn(t, Append(tasks[t].batch, Head(data_queue)))
    /\ UNCHANGED <<manager, conf, signal_handler, config, running, metrics,
                   price_history, anomaly_logged, kafka, topics_created,
                   publish_calls, postgres, market_data, flushed, prod, tally,
                   last_call, now>>

\* wait_for times out and the iteration goes into store_batch
TimeoutThenGetconn(t) ==
    /\ tasks[t].pc = "wait"
    /\ data_queue = <<>>
    /\ Getconn(t, tasks[t].batch)
    /\ UNCHANGED <<manager, conf, signal_handler, config, running, data_queue,
                   metrics, price_history, anomaly_logged, kafka,
                   topics_created, publish_calls, postgres, market_data,
                   flushed, prod, tally, last_call, now>>

\* execute_values and conn.commit(): on a connection that closeall() has
\* closed in the meantime they raise and nothing is stored
Commit(t, write_ok) ==
    /\ tasks[t].pc = "store"
    /\ LET committed == write_ok /\ postgres = "open"
       IN  /\ market_data' = IF committed
                             THEN market_data \o tasks[t].batch
                             ELSE market_data
           /\ flushed' = Append(flushed,
                  [batch |-> tasks[t].batch, task |-> t, stored |-> committed])
    /\ tasks' = [tasks EXCEPT ![t].pc = "stored"]
    /\ UNCHANGED <<manager, conf, signal_handler, config, running, data_queue,
                   metrics, price_history, anomaly_logged, kafka,
                   topics_created, publish_calls, postgres, checked_out, prod,
                   tally, last_call, now>>

\* `finally: self.pool.putconn(conn)`, which raises PoolError on a pool that
\* closeall() has closed, then the return of store_batch and the rest of the
\* iteration
Putconn(t) ==
    /\ tasks[t].pc = "stored"
    /\ checked_out' = IF postgres = "open" THEN checked_out - 1
                      ELSE checked_out
    /\ metrics' = [metrics EXCEPT !.last_batch_time = now]
    /\ tasks' = [tasks EXCEPT ![t] = AfterIteration(<<>>, now)]
    /\ UNCHANGED <<manager, conf, signal_handler, config, running, data_queue,
                   price_history, anomaly_logged, kafka, topics_created,
                   publish_calls, postgres, market_data, flushed, prod, tally,
                   last_call, now>>

(***************************************************************************)
(* start() and stop(), as functions of the fields they read and write      *)
(***************************************************************************)
Lifecycle ==
    [running |-> running, metrics |-> metrics, tasks |-> tasks,
     kafka |-> kafka, postgres |-> postgres]

FreeTasks(ts) == { t \in TaskIds : ts[t].pc = "none" }

\* the slot asyncio.create_task's new task takes
NewTask(ts) == CHOOSE t \in FreeTasks(ts) : \A u \in FreeTasks(ts) : t <= u

\* start() without its `if self.running: return`
start_unguarded(s) ==
    [s EXCEPT !.running = TRUE,
              !.metrics.start_time = now,
              !.tasks = IF FreeTasks(s.tasks) = {} THEN @
                        ELSE [@ EXCEPT ![NewTask(s.tasks)] =
                                 [pc |-> "new", batch |-> <<>>,
                                  last_flush |-> 0]]]

start(s) ==
    IF s.running THEN s
    ELSE [s EXCEPT !.running = TRUE,
                   !.metrics.start_time = now,
                   !.tasks[NewTask(s.tasks)] =
                       [pc |-> "new", batch |-> <<>>, last_flush |-> 0]]

\* a close() that leaves the sink open
CloseSink_left_open(sink) == sink

\* KafkaStreamer.close() and PostgreSQLStorage.close()
CloseSink(sink) == IF sink = "open" THEN "closed" ELSE sink

\* stop() that only clears the flag
stop_flag_only(s) ==
    IF ~s.running THEN s ELSE [s EXCEPT !.running = FALSE]

stop(s) ==
    IF ~s.running THEN s
    ELSE [s EXCEPT !.running = FALSE,
                   !.kafka = CloseSink(@),
                   !.postgres = CloseSink(@)]

\* start(), while a task slot is left
Start ==
    /\ running \/ FreeTasks(tasks) # {}
    /\ LET s == start(Lifecycle)
       IN  /\ running' = s.running
           /\ metrics' = s.metrics
           /\ tasks' = s.tasks
    /\ last_call' = IF running THEN "start_noop" ELSE "start"
    /\ UNCHANGED <<manager, conf, signal_handler, config, data_queue, price_history, anomaly_logged, kafka,
                   topics_created, publish_calls, postgres, checked_out, market_data,
                   flushed, prod, tally, now>>

\* a call of stop(), by whoever makes it.  closeall() of a pool that is
\* closed already (by an earlier stop()) raises PoolError, which leaves
\* stop() after it cleared the flag and closed the streaming client.
StopCall ==
    /\ LET s == stop(Lifecycle)
       IN  /\ running' = s.running
           /\ kafka' = s.kafka
           /\ postgres' = s.postgres
    /\ last_call' = IF ~running THEN "stop_noop"
                    ELSE IF postgres = "closed" THEN "stop_raised"
                    ELSE "stop"
    /\ UNCHANGED <<manager, conf, config, data_queue, metrics, price_history,
                   anomaly_logged, topics_created, publish_calls, market_data,
                   flushed, tasks, prod, tally, now, checked_out>>

\* stop(), called by the application
Stop ==
    /\ StopCall
    /\ UNCHANGED signal_handler

\* the process's handler of SIGINT and SIGTERM: signal.signal in __init__
\* installs this pipeline's _signal_handler, and the __init__ of a
\* pipeline constructed later in the process installs that one's instead
NoSignal == [owner |-> "self", received |-> 0]

\* another DataIngestionPipeline is constructed in the process
ConstructOther ==
    /\ signal_handler.owner = "self"
    /\ signal_handler' = [signal_handler EXCEPT !.owner = "other"]
    /\ UNCHANGED <<manager, conf, config, running, data_queue, metrics,
                   price_history, anomaly_logged, kafka, topics_created,
                   publish_calls, postgres, checked_out, market_data, flushed, tasks, prod,
                   tally, last_call, now>>

\* the process receives SIGINT or SIGTERM: the installed handler runs
\* between two steps of the event loop's thread.  This pipeline's
\* _signal_handler calls stop(); the handler of another pipeline stops
\* that one.
Signal ==
    /\ signal_handler.received < MaxSignals
    /\ signal_handler' = [signal_handler EXCEPT !.received = @ + 1]
    /\ IF signal_handler.owner = "self"
       THEN StopCall
       ELSE UNCHANGED <<manager, conf, config, running, data_queue, metrics,
                        price_history, anomaly_logged, kafka, topics_created,
                        publish_calls, postgres, checked_out, market_data, flushed, tasks,
                        prod, tally, last_call, now>>

(***************************************************************************)
(* time.time().  The pipeline only uses differences of clock readings, so  *)
(* the current reading is kept at MaxTime and a tick moves every stored    *)
(* reading one back instead: differences are exact up to MaxTime - 1 and   *)
(* saturate there.  A reading of 0 is None.                                *)
(***************************************************************************)
Earlier(x) == IF x > 1 THEN x - 1 ELSE x

Tick ==
    /\ metrics' = [metrics EXCEPT !.start_time = Earlier(@),
                                  !.last_batch_time = Earlier(@)]
    /\ tasks' = [t \in TaskIds |->
           [tasks[t] EXCEPT !.last_flush = Earlier(@)]]
    /\ prod' = [p \in Producers |->
           [prod[p] EXCEPT !.start_time = Earlier(@)]]
    /\ UNCHANGED <<manager, conf, signal_handler, config, running, data_queue, price_history, anomaly_logged,
                   kafka, topics_created, publish_calls, postgres, checked_out, market_data,
                   flushed, tally, last_call, now>>

(***************************************************************************)
(* DataConnectorManager.  Its config has one section per source; a section *)
(* that is absent reads as the default one.  A collection task is "new"    *)
(* (created, not yet run), "fetch" (suspended in session.get), "rate_sleep"*)
(* (Alpha Vantage's sleep after a 200 response), "sleep" (asyncio.sleep of *)
(* the collection interval), "connect" and "recv" (Finnhub: suspended in   *)
(* websockets.connect, and in the receive loop), "done" (returned) or      *)
(* "raised" (an exception left the task).                                  *)
(***************************************************************************)
Sources == {"alpha_vantage", "finnhub", "quandl", "fred", "twitter"}

\* the order in which the manager looks at the sources
SourceOrder == <<"alpha_vantage", "finnhub", "quandl", "fred", "twitter">>

\* the sources whose task is a `while self.running` loop
PollSources == Sources \ {"finnhub"}

\* a section: enabled, the credential (api_key, or bearer_token for
\* twitter; "" when missing or empty), and whether collection_interval is
\* a number asyncio.sleep accepts
Sections ==
    [enabled : BOOLEAN, credential : {"", "key"},
     interval : {"number", "invalid"}]

DefaultSection == [enabled |-> FALSE, credential |-> "", interval |-> "number"]

\* the configs a manager is constructed with: at most MaxConfigured sections
\* differ from the default
ManagerConfigs ==
    { c \in [Sources -> Sections] :
        Cardinality({ s \in Sources : c[s] # DefaultSection })
            <= MaxConfigured }

\* _initialize_connectors without its test of the credential
initialize_connectors_enabled_only(cfg) ==
    { s \in Sources : cfg[s].enabled }

\* _initialize_connectors: the keys of self.connectors
initialize_connectors(cfg) ==
    { s \in Sources : cfg[s].enabled /\ cfg[s].credential # "" }

\* a collection task that does not exist yet.  after_call says what the
\* connector did since its last provider call returned: "none" before the
\* first call, "rate_sleep" once asyncio.sleep(self.rate_limit_delay) was
\* reached, "no_sleep" otherwise.
NoCollection ==
    [pc |-> "none", session |-> "none", websocket |-> "none", produced |-> 0,
     after_call |-> "none"]

\* DataConnectorManager.__init__(pipeline, config)
ConstructManager(configs) ==
    \E c \in configs :
        manager = [state |-> "built", config |-> c,
                   connectors |-> initialize_connectors(c),
                   running |-> FALSE, call |-> "none",
                   error_logged |-> FALSE,
                   task |-> [s \in Sources |-> NoCollection]]

IndexOf(s) == CHOOSE i \in 1..Len(SourceOrder) : SourceOrder[i] = s

\* the caller's frame a connector's ingest_data_point calls run in: the
\* connector's rank among the manager's connectors
FrameOf(s) ==
    Cardinality({ i \in 1..IndexOf(s) : SourceOrder[i] \in manager.connectors })

\* the pipeline's variables, for the steps of the manager that do not call
\* the pipeline
PipelineUnchanged ==
    UNCHANGED <<conf, signal_handler, config, running, data_queue, metrics,
                price_history, anomaly_logged, kafka, topics_created,
                publish_calls, postgres, checked_out, market_data, flushed, tasks, prod,
                tally, last_call, now>>

\* start_data_collection up to its `await asyncio.gather(*tasks)`, called
\* once
StartDataCollection ==
    /\ manager.call = "none"
    /\ manager' =
           [manager EXCEPT
               !.running = TRUE,
               !.call = "gathering",
               !.task = [s \in Sources |->
                   IF s \in manager.connectors
                   THEN [NoCollection EXCEPT !.pc = "new"]
                   ELSE manager.task[s]]]
    /\ PipelineUnchanged

\* __aexit__: the websocket, if one was opened, and the session are closed
Aexit(task) ==
    [task EXCEPT !.session = "closed",
                 !.websocket = IF @ = "open" THEN "closed" ELSE @]

\* `while self.running:` of a poll task whose session is open: the next
\* round's first fetch is awaited, or the `async with` block is left
LoopTest(task) ==
    IF manager.running THEN [task EXCEPT !.pc = "fetch"]
    ELSE [Aexit(task) EXCEPT !.pc = "done"]

\* `await asyncio.sleep(interval)` at the end of a round: a TypeError for an
\* interval that is no number, which leaves the task through __aexit__
IntervalSleep(s, task) ==
    IF manager.config[s].interval = "number"
    THEN [task EXCEPT !.pc = "sleep"]
    ELSE [Aexit(task) EXCEPT !.pc = "raised"]

\* the first run of a collection task: __aenter__ opens the session (or
\* raises), then the poll loop's first test, or start_realtime_feed up to
\* websockets.connect
BeginCollection(s) ==
    /\ manager.task[s].pc = "new"
    /\ \E opened \in BOOLEAN :
           manager' = [manager EXCEPT !.task[s] =
               IF ~opened THEN [@ EXCEPT !.pc = "raised"]
               ELSE IF s \in PollSources
                    THEN LoopTest([@ EXCEPT !.session = "open"])
                    ELSE [@ EXCEPT !.session = "open", !.pc = "connect"]]
    /\ PipelineUnchanged

\* after a fetch returned: Alpha Vantage sleeps rate_limit_delay after a 200
\* response, every other case goes on to the interval sleep (a round
\* fetches one symbol)
AfterFetch(s, task, ok200) ==
    IF s = "alpha_vantage" /\ ok200
    THEN [task EXCEPT !.pc = "rate_sleep", !.after_call = "rate_sleep"]
    ELSE IntervalSleep(s, [task EXCEPT !.after_call = "no_sleep"])

\* the response of a poll connector's fetch arrives with a point, which is
\* passed to ingest_data_point.  A connector produces at most MaxProduced
\* points, so that the queue of a pipeline that is not started never fills.
FetchPoint(s) ==
    /\ s \in PollSources
    /\ manager.task[s].pc = "fetch"
    /\ manager.task[s].produced < MaxProduced
    /\ ~QueueFull(data_queue)
    /\ \E data_point \in
             ValidInputPoints(FrameOf(s), manager.task[s].produced + 1) :
           IngestDataPoint(FrameOf(s), data_point)
    /\ manager' = [manager EXCEPT !.task[s] =
           AfterFetch(s, [@ EXCEPT !.produced = @ + 1], TRUE)]

\* the response carries no point (ok200), or the request failed (an HTTP or
\* API error, or an exception, which the fetch catches): the fetch returns
FetchNothing(s) ==
    /\ s \in PollSources
    /\ manager.task[s].pc = "fetch"
    /\ \E ok200 \in BOOLEAN :
           manager' = [manager EXCEPT !.task[s] = AfterFetch(s, @, ok200)]
    /\ PipelineUnchanged

\* Alpha Vantage's rate-limit sleep ends
RateSleepDone(s) ==
    /\ manager.task[s].pc = "rate_sleep"
    /\ manager' = [manager EXCEPT !.task[s] = IntervalSleep(s, @)]
    /\ PipelineUnchanged

\* the interval sleep ends: the loop tests self.running
SleepDone(s) ==
    /\ manager.task[s].pc = "sleep"
    /\ manager' = [manager EXCEPT !.task[s] = LoopTest(@)]
    /\ PipelineUnchanged

\* websockets.connect returns and the subscriptions are sent, or it raises:
\* start_realtime_feed catches the exception and returns
Connect(s) ==
    /\ manager.task[s].pc = "connect"
    /\ \E connected \in BOOLEAN :
           manager' = [manager EXCEPT !.task[s] =
               IF connected THEN [@ EXCEPT !.websocket = "open", !.pc = "recv"]
               ELSE [Aexit(@) EXCEPT !.pc = "done"]]
    /\ PipelineUnchanged

\* the server sends a trade message: its point is passed to
\* ingest_data_point
ReceiveTrade(s) ==
    /\ manager.task[s].pc = "recv"
    /\ manager.task[s].produced < MaxProduced
    /\ ~QueueFull(data_queue)
    /\ \E data_point \in
             ValidInputPoints(FrameOf(s), manager.task[s].produced + 1) :
           IngestDataPoint(FrameOf(s), data_point)
    /\ manager' = [manager EXCEPT !.task[s].produced = @ + 1]

\* the server closes the connection, or it breaks: the receive loop ends
\* (the exception is caught) and the task returns through __aexit__
ConnectionLost(s) ==
    /\ manager.task[s].pc = "recv"
    /\ manager' = [manager EXCEPT !.task[s] = [Aexit(@) EXCEPT !.pc = "done"]]
    /\ PipelineUnchanged

CollectionTasks == { s \in Sources : manager.task[s].pc # "none" }

\* asyncio.gather(*tasks) is done: every task returned, or a task raised
GatherDone ==
    \/ \E s \in CollectionTasks : manager.task[s].pc = "raised"
    \/ \A s \in CollectionTasks : manager.task[s].pc = "done"

\* start_data_collection from the return of gather: an exception of a task
\* is logged, and the call returns
GatherReturn ==
    /\ manager.call = "gathering"
    /\ GatherDone
    /\ manager' =
           [manager EXCEPT
               !.call = "returned",
               !.error_logged =
                   \E s \in CollectionTasks : manager.task[s].pc = "raised"]
    /\ PipelineUnchanged

\* DataConnectorManager.stop()
ManagerStop ==
    /\ manager' = [manager EXCEPT !.running = FALSE]
    /\ PipelineUnchanged

(***************************************************************************)
(* ConfigurationManager (pipeline_config.py).  The configuration is a dict *)
(* of sections, each a dict of keys; the model keeps it as a function on   *)
(* (section, key) pairs whose value is Absent where the dict has no such   *)
(* key.  A value carries its Python type.  The yfinance section and the    *)
(* keys no operation of the manager reads are left out.                    *)
(***************************************************************************)
IntV(n) == [type |-> "int", num |-> n, str |-> "", bool |-> FALSE]
FloatV(n) == [type |-> "float", num |-> n, str |-> "", bool |-> FALSE]
StrV(x) == [type |-> "str", num |-> 0, str |-> x, bool |-> FALSE]
BoolV(b) == [type |-> "bool", num |-> 0, str |-> "", bool |-> b]
Absent == [type |-> "absent", num |-> 0, str |-> "", bool |-> FALSE]

ConfigSections ==
    {"pipeline", "kafka", "postgresql", "alpha_vantage", "finnhub", "quandl",
     "fred", "twitter", "custom", "nope"}

KeyNames ==
    {"batch_size", "batch_timeout", "max_queue_size", "log_level", "enabled",
     "bootstrap_servers", "host", "port", "database", "user", "password",
     "api_key", "bearer_token", "key"}

ConfigKeys == ConfigSections \X KeyNames

EmptyConfig == [k \in ConfigKeys |-> Absent]

\* the dict of the given entries (a set of <<section, key, value>>)
ConfigOf(entries) ==
    [k \in ConfigKeys |->
        IF \E e \in entries : e[1] = k[1] /\ e[2] = k[2]
        THEN (CHOOSE e \in entries : e[1] = k[1] /\ e[2] = k[2])[3]
        ELSE Absent]

\* _get_default_config
get_default_config ==
    ConfigOf(
        {<<"pipeline", "batch_size", IntV(100)>>,
         <<"pipeline", "batch_timeout", FloatV(1)>>,
         <<"pipeline", "max_queue_size", IntV(QueueCapacity)>>,
         <<"pipeline", "log_level", StrV("INFO")>>,
         <<"kafka", "enabled", BoolV(FALSE)>>,
         <<"kafka", "bootstrap_servers", StrV("localhost:9092")>>,
         <<"postgresql", "enabled", BoolV(FALSE)>>,
         <<"postgresql", "host", StrV("localhost")>>,
         <<"postgresql", "port", IntV(5432)>>,
         <<"postgresql", "database", StrV("trading_data")>>,
         <<"postgresql", "user", StrV("postgres")>>,
         <<"postgresql", "password", StrV("")>>,
         <<"twitter", "enabled", BoolV(FALSE)>>,
         <<"twitter", "bearer_token", StrV("")>>}
        \cup { <<sec, "enabled", BoolV(FALSE)>> : sec \in Sources \ {"twitter"} }
        \cup { <<sec, "api_key", StrV("")>> : sec \in Sources \ {"twitter"} })

\* _merge_config(base, override) for a file of sections of keys
merge_config(base, override) ==
    [k \in ConfigKeys |-> IF override[k] # Absent THEN override[k] ELSE base[k]]

\* os.getenv of a variable that is not set
NotSet == "<None>"

\* env_mappings: variable, section, key, converter
env_mappings ==
    {<<"PIPELINE_BATCH_SIZE", "pipeline", "batch_size", "int">>,
     <<"PIPELINE_BATCH_TIMEOUT", "pipeline", "batch_timeout", "float">>,
     <<"PIPELINE_LOG_LEVEL", "pipeline", "log_level", "str">>,
     <<"KAFKA_ENABLED", "kafka", "enabled", "is_true">>,
     <<"KAFKA_BOOTSTRAP_SERVERS", "kafka", "bootstrap_servers", "str">>,
     <<"POSTGRES_ENABLED", "postgresql", "enabled", "is_true">>,
     <<"POSTGRES_HOST", "postgresql", "host", "str">>,
     <<"POSTGRES_PORT", "postgresql", "port", "int">>,
     <<"POSTGRES_DATABASE", "postgresql", "database", "str">>,
     <<"POSTGRES_USER", "postgresql", "user", "str">>,
     <<"POSTGRES_PASSWORD", "postgresql", "password", "str">>,
     <<"ALPHA_VANTAGE_API_KEY", "alpha_vantage", "api_key", "str">>,
     <<"FINNHUB_API_KEY", "finnhub", "api_key", "str">>,
     <<"QUANDL_API_KEY", "quandl", "api_key", "str">>,
     <<"FRED_API_KEY", "fred", "api_key", "str">>,
     <<"TWITTER_BEARER_TOKEN", "twitter", "bearer_token", "str">>}

EnvVars == { m[1] : m \in env_mappings }

\* int(x) of the strings of the model; every other string is a ValueError
IntOf(x) ==
    CASE x = "5" -> 5
      [] x = "0" -> 0
      [] x = "-3" -> -3

IsNumeral(x) == x \in {"5", "0", "-3"}

\* whether the converter returns for the string (int and float raise
\* ValueError for a string that is no number)
Convertible(converter, x) ==
    converter \in {"int", "float"} => IsNumeral(x)

\* converter(value)
Convert(converter, x) ==
    CASE converter = "int" -> IntV(IntOf(x))
      [] converter = "float" -> FloatV(IntOf(x))
      [] converter = "str" -> StrV(x)
      [] converter = "is_true" -> BoolV(Lower(x) = "true")

\* _load_env_variables without the override
load_env_variables_ignored(cfg, env) == cfg

\* _load_env_variables
load_env_variables(cfg, env) ==
    [k \in ConfigKeys |->
        IF \E m \in env_mappings :
               /\ m[2] = k[1] /\ m[3] = k[2]
               /\ env[m[1]] # NotSet
               /\ Convertible(m[4], env[m[1]])
        THEN LET m == CHOOSE m \in env_mappings : m[2] = k[1] /\ m[3] = k[2]
             IN  Convert(m[4], env[m[1]])
        ELSE cfg[k]]

\* `value <= 0` of a number
NonPositive(v) == v.type \in {"int", "float"} /\ v.num <= 0

\* _validate_config: the numerical ranges (the check of the credentials
\* only logs a warning)
validate_config(cfg) ==
    [cfg EXCEPT
        ![<<"pipeline", "batch_size">>] =
            IF NonPositive(@) THEN IntV(100) ELSE @,
        ![<<"pipeline", "batch_timeout">>] =
            IF NonPositive(@) THEN FloatV(1) ELSE @]

\* _load_configuration: file is the content of the configuration file
\* (EmptyConfig when there is none or it cannot be read)
load_configuration(file, env) ==
    validate_config(
        load_env_variables(merge_config(get_default_config, file), env))

\* `section not in self.config`
SectionAbsent(cfg, section) ==
    \A k \in ConfigKeys : k[1] = section => cfg[k] = Absent

\* get_config()
get_config == conf.config

\* update_config(section, key, value)
update_config(cfg, section, key, value) ==
    [cfg EXCEPT ![<<section, key>>] = value]

\* the field a service's credential is kept in
KeyField(service_name) ==
    IF service_name = "twitter" THEN "bearer_token" ELSE "api_key"

\* `if api_key:` of an Optional[str]
Truthy(x) == x # NotSet /\ x # ""

\* enable_service that keeps every credential under api_key
enable_service_api_key_only(cfg, service_name, api_key) ==
    IF SectionAbsent(cfg, service_name) THEN cfg
    ELSE [k \in ConfigKeys |->
             IF k = <<service_name, "enabled">> THEN BoolV(TRUE)
             ELSE IF k = <<service_name, "api_key">> /\ Truthy(api_key)
                  THEN StrV(api_key)
                  ELSE cfg[k]]

\* enable_service(service_name, api_key)
enable_service(cfg, service_name, api_key) ==
    IF SectionAbsent(cfg, service_name) THEN cfg
    ELSE [k \in ConfigKeys |->
             IF k = <<service_name, "enabled">> THEN BoolV(TRUE)
             ELSE IF k = <<service_name, KeyField(service_name)>>
                     /\ Truthy(api_key)
                  THEN StrV(api_key)
                  ELSE cfg[k]]

\* disable_service(service_name)
disable_service(cfg, service_name) ==
    IF SectionAbsent(cfg, service_name) THEN cfg
    ELSE [cfg EXCEPT ![<<service_name, "enabled">>] = BoolV(FALSE)]

\* the variables of the pipeline and of the connector manager, which the
\* configuration manager does not touch
OnlyConf ==
    UNCHANGED <<manager, signal_handler, config, running, data_queue, metrics,
                price_history, anomaly_logged, kafka, topics_created,
                publish_calls, postgres, checked_out, market_data, flushed, tasks, prod,
                tally, last_call, now>>

NoOp == [op |-> "none", section |-> "", key |-> "", value |-> Absent,
         api_key |-> NotSet]

\* ConfigurationManager(config_file): __init__ runs _load_configuration
LoadConfiguration ==
    /\ conf.state = "new"
    /\ conf' = [conf EXCEPT
           !.state = "loaded",
           !.config = load_configuration(conf.file, conf.env),
           !.last = [NoOp EXCEPT !.op = "load"]]
    /\ OnlyConf

\* a call of update_config
UpdateConfig(section, key, value) ==
    /\ conf.state = "loaded"
    /\ conf.ops < MaxOps
    /\ conf' = [conf EXCEPT
           !.config = update_config(@, section, key, value),
           !.ops = @ + 1,
           !.last = [NoOp EXCEPT !.op = "update", !.section = section,
                                 !.key = key, !.value = value]]
    /\ OnlyConf

\* a call of enable_service
EnableService(service_name, api_key) ==
    /\ conf.state = "loaded"
    /\ conf.ops < MaxOps
    /\ conf' = [conf EXCEPT
           !.config = enable_service(@, service_name, api_key),
           !.ops = @ + 1,
           !.last = [NoOp EXCEPT !.op = "enable", !.section = service_name,
                                 !.api_key = api_key]]
    /\ OnlyConf

\* a call of disable_service
DisableService(service_name) ==
    /\ conf.state = "loaded"
    /\ conf.ops < MaxOps
    /\ conf' = [conf EXCEPT
           !.config = disable_service(@, service_name),
           !.ops = @ + 1,
           !.last = [NoOp EXCEPT !.op = "disable", !.section = service_name]]
    /\ OnlyConf

(***************************************************************************)
(* The environment.  Each specification drives the same pipeline with the  *)
(* calls its claims are about.                                             *)
(***************************************************************************)
\* a pipeline used on its own: no DataConnectorManager and no
\* ConfigurationManager exist, and the process's signal handler is the one
\* __init__ installed (NoSignal)
NoManager == [state |-> "none"]
NoConf == [state |-> "none"]

Standalone ==
    /\ manager = NoManager
    /\ conf = NoConf
    /\ signal_handler = NoSignal

\* a producer makes its next call, with any point
Ingest(p) ==
    /\ prod[p].calls < MaxCalls
    /\ UNCHANGED manager
    /\ \E data_point \in InputPoints(p, prod[p].calls + 1) :
           IngestDataPoint(p, data_point)

\* a producer makes its next call, with a valid point
IngestValid(p) ==
    /\ prod[p].calls < MaxCalls
    /\ UNCHANGED manager
    /\ \E data_point \in ValidInputPoints(p, prod[p].calls + 1) :
           IngestDataPoint(p, data_point)

\* start() of a pipeline that was never started, or that is running
StartOnce ==
    /\ running \/ \A t \in TaskIds : tasks[t].pc = "none"
    /\ Start

\* The ingest specification: any points from concurrent producers, with
\* every outcome of the streaming sink; the pipeline is started at most
\* once and may be stopped at any time; its storage sink is disabled and the
\* clock does not advance.
Init ==
    /\ Construct({ c \in Configs : c.batch_size = 1 /\ c.batch_timeout = 1
                                   /\ c.postgres = "none" })
    /\ Standalone

Next ==
    \/ \E p \in Producers : Ingest(p)
    \/ \E p \in Producers : PutResume(p)
    \/ \E t \in TaskIds : BatchProcessorBegin(t)
    \/ \E t \in TaskIds : BatchProcessorGet(t, TRUE)
    \/ \E t \in TaskIds : BatchProcessorTimeout(t, TRUE)
    \/ StartOnce
    \/ Stop

Spec == Init /\ [][Next]_vars

\* The flush specification: valid points from one producer (whose MaxCalls
\* points never fill the queue, so it never suspends), every batch_size and
\* batch_timeout, every state of the storage sink and every outcome of its
\* writes, start() and stop() in any order, and the clock; the streaming
\* sink is disabled.
InitFlush ==
    /\ Construct({ c \in Configs : c.kafka = "none" })
    /\ Standalone

NextFlush ==
    \/ IngestValid(1)
    \/ \E t \in TaskIds : BatchProcessorBegin(t)
    \/ \E t \in TaskIds : \E write_ok \in BOOLEAN : BatchProcessorGet(t, write_ok)
    \/ \E t \in TaskIds : \E write_ok \in BOOLEAN :
           BatchProcessorTimeout(t, write_ok)
    \/ Start
    \/ Stop
    \/ Tick

SpecFlush == InitFlush /\ [][NextFlush]_vars

\* The flush specification under the scheduling asyncio gives a task that
\* is ready to run: a created task runs, a dequeue wait that can return or
\* time out does, and time passes.
FairFlush ==
    /\ \A t \in TaskIds : WF_vars(BatchProcessorBegin(t))
    /\ \A t \in TaskIds :
           WF_vars(\E write_ok \in BOOLEAN : BatchProcessorGet(t, write_ok))
    /\ \A t \in TaskIds :
           WF_vars(\E write_ok \in BOOLEAN : BatchProcessorTimeout(t, write_ok))
    /\ WF_vars(Tick)

SpecFlushFair == InitFlush /\ [][NextFlush]_vars /\ FairFlush

\* a producer makes its next call, with a valid point, on a running pipeline
IngestRunning(p) ==
    /\ running
    /\ IngestValid(p)

\* The concurrent specification: NumProducers producers each submit
\* MaxCalls valid points to a pipeline that was started and is not stopped,
\* whose storage sink is open and whose writes succeed, with every
\* batch_size and batch_timeout; the streaming sink is disabled.
InitConcurrent ==
    /\ Construct({ c \in Configs : c.kafka = "none" /\ c.postgres = "open" })
    /\ Standalone

NextConcurrent ==
    \/ \E p \in Producers : IngestRunning(p)
    \/ \E p \in Producers : PutResume(p)
    \/ \E t \in TaskIds : BatchProcessorBegin(t)
    \/ \E t \in TaskIds : BatchProcessorGet(t, TRUE)
    \/ \E t \in TaskIds : BatchProcessorTimeout(t, TRUE)
    \/ StartOnce
    \/ Tick

SpecConcurrent == InitConcurrent /\ [][NextConcurrent]_vars

\* the points of the anomaly specification: one symbol for the whole run,
\* prices at a stable level or at twice that level
AnomalyPoints(k) ==
    { MarketDataPoint(sym, 1, pr, "float", 1, 1, k) :
        sym \in (IF k = 1 THEN {"AAPL", NonStrSymbol}
                 ELSE {prod[1].arg.symbol}),
        pr \in {2, 4} }

IngestAnomaly ==
    /\ prod[1].calls < MaxAnomalyCalls
    /\ UNCHANGED manager
    /\ \E data_point \in AnomalyPoints(prod[1].calls + 1) :
           IngestDataPoint(1, data_point)

\* The anomaly specification: one producer submits MaxAnomalyCalls valid
\* points of one symbol, so that the history passes the warm-up and then its
\* capacity; the pipeline is started at most once and drains the queue; the
\* streaming sink is disabled or has no producer.
InitAnomaly ==
    /\ Construct({ c \in Configs : c.batch_size = 1 /\ c.batch_timeout = 1
                                   /\ c.kafka \in {"none", "no_producer"}
                                   /\ c.postgres = "none" })
    /\ Standalone

NextAnomaly ==
    \/ IngestAnomaly
    \/ PutResume(1)
    \/ \E t \in TaskIds : BatchProcessorBegin(t)
    \/ \E t \in TaskIds : BatchProcessorGet(t, TRUE)
    \/ \E t \in TaskIds : BatchProcessorTimeout(t, TRUE)
    \/ StartOnce

SpecAnomaly == InitAnomaly /\ [][NextAnomaly]_vars

\* the points of the history specification: prices of one symbol at two
\* levels, a second symbol, and the points the validator turns away (zero
\* price, negative volume, a price that is None)
HistoryPoints(k) ==
    { MarketDataPoint(shape[1], 1, shape[2], shape[3], shape[4], 1, k) :
        shape \in { <<"AAPL", 2, "float", 1>>, <<"AAPL", 4, "float", 1>>,
                    <<"Msft", 4, "float", 0>>, <<"AAPL", 0, "float", 1>>,
                    <<"Msft", 2, "float", -1>>,
                    <<"AAPL", 0, "NoneType", 1>> } }

\* validator.validate_price_data(data_point), called on the validator
\* itself as the validation tests do; prod[1] is the caller
Validate ==
    /\ prod[1].pc = "idle"
    /\ prod[1].calls < MaxValidations
    /\ \E data_point \in HistoryPoints(prod[1].calls + 1) :
           LET v == validate_price_data(data_point, price_history)
           IN  /\ price_history' = v.price_history
               /\ anomaly_logged' = v.anomaly
               /\ prod' = [prod EXCEPT ![1].calls = @ + 1,
                                       ![1].returns = @ + 1,
                                       ![1].arg = data_point,
                                       ![1].obj = data_point,
                                       ![1].result = v.ok]
    /\ UNCHANGED <<config, running, data_queue, metrics, kafka,
                   topics_created, publish_calls, postgres, checked_out, market_data,
                   flushed, tasks, tally, last_call, now, manager, conf,
                   signal_handler>>

\* The history specification: MaxAnomalyCalls validations, of valid and
\* invalid points in any order, so that a history reaches its capacity and
\* evicts.
InitHistory ==
    /\ Construct({ c \in Configs : c.batch_size = 1 /\ c.batch_timeout = 1
                                   /\ c.kafka = "none"
                                   /\ c.postgres = "none" })
    /\ Standalone

NextHistory == Validate

SpecHistory == InitHistory /\ [][NextHistory]_vars

\* The manager specification: a DataConnectorManager built with every
\* config of ManagerConfigs on a pipeline without sinks that is not started;
\* start_data_collection is called once and stop() at any time; requests and
\* connections succeed or fail, and the server of the push connection sends
\* a message or closes the connection whenever it likes.
InitManager ==
    /\ Construct({ c \in Configs : c.batch_size = 1 /\ c.batch_timeout = 1
                                   /\ c.kafka = "none" /\ c.postgres = "none" })
    /\ ConstructManager(ManagerConfigs)
    /\ conf = NoConf
    /\ signal_handler = NoSignal

NextManager ==
    \/ StartDataCollection
    \/ \E s \in Sources : BeginCollection(s)
    \/ \E s \in Sources : FetchPoint(s)
    \/ \E s \in Sources : FetchNothing(s)
    \/ \E s \in Sources : RateSleepDone(s)
    \/ \E s \in Sources : SleepDone(s)
    \/ \E s \in Sources : Connect(s)
    \/ \E s \in Sources : ReceiveTrade(s)
    \/ \E s \in Sources : ConnectionLost(s)
    \/ GatherReturn
    \/ ManagerStop

SpecManager == InitManager /\ [][NextManager]_vars

\* Fairness of the manager specification: the event loop runs every task
\* that is ready, and every request, connection attempt and sleep comes to
\* an end.  What the server of the push connection sends, and when it closes
\* the connection, is up to the server; calls of the manager are up to the
\* caller.
FairManager ==
    /\ \A s \in Sources : WF_vars(BeginCollection(s))
    /\ \A s \in Sources : WF_vars(FetchPoint(s) \/ FetchNothing(s))
    /\ \A s \in Sources : WF_vars(RateSleepDone(s))
    /\ \A s \in Sources : WF_vars(SleepDone(s))
    /\ \A s \in Sources : WF_vars(Connect(s))
    /\ WF_vars(GatherReturn)

SpecManagerFair == InitManager /\ [][NextManager]_vars /\ FairManager

\* the strings an environment variable is set to
EnvValues == {"5", "0", "-3", "abc", "true", "TRUE", "yes", ""}

\* the environments: at most MaxEnvSet variables of the whitelist are set
Environments ==
    UNION { { [v \in EnvVars |-> IF v \in S THEN f[v] ELSE NotSet] :
                f \in [S -> EnvValues] } :
            S \in { T \in SUBSET EnvVars : Cardinality(T) <= MaxEnvSet } }

\* the contents of the configuration file: none (or unreadable), one with
\* valid settings, one with non-positive batch settings and a section of
\* its own
FileConfigs ==
    {EmptyConfig,
     ConfigOf({<<"pipeline", "batch_size", IntV(7)>>,
               <<"pipeline", "batch_timeout", FloatV(2)>>,
               <<"pipeline", "max_queue_size", IntV(500)>>,
               <<"kafka", "enabled", BoolV(TRUE)>>,
               <<"postgresql", "port", IntV(6543)>>,
               <<"alpha_vantage", "enabled", BoolV(TRUE)>>,
               <<"alpha_vantage", "api_key", StrV("filekey")>>}),
     ConfigOf({<<"pipeline", "batch_size", IntV(0)>>,
               <<"pipeline", "batch_timeout", FloatV(-1)>>,
               <<"pipeline", "log_level", StrV("DEBUG")>>,
               <<"twitter", "enabled", BoolV(TRUE)>>,
               <<"twitter", "bearer_token", StrV("filetoken")>>,
               <<"custom", "key", StrV("v")>>})}

\* the arguments of the calls
ServiceNames == {"alpha_vantage", "twitter", "kafka", "custom", "nope"}
Credentials == {NotSet, "", "newkey"}
UpdateKeys ==
    {<<"pipeline", "batch_size">>, <<"twitter", "bearer_token">>,
     <<"custom", "key">>, <<"nope", "enabled">>}
UpdateValues == {IntV(0), StrV("v"), BoolV(TRUE)}

\* The configuration specification: a ConfigurationManager is constructed
\* from every file of FileConfigs under every environment of Environments,
\* and then receives up to MaxOps calls of update_config, enable_service
\* and disable_service.
InitConfig ==
    /\ Construct({ c \in Configs : c.batch_size = 1 /\ c.batch_timeout = 1
                                   /\ c.kafka = "none" /\ c.postgres = "none" })
    /\ manager = NoManager
    /\ signal_handler = NoSignal
    /\ \E file \in FileConfigs, env \in Environments :
           conf = [state |-> "new", file |-> file, env |-> env,
                   config |-> EmptyConfig, ops |-> 0, last |-> NoOp]

NextConfig ==
    \/ LoadConfiguration
    \/ \E k \in UpdateKeys, value \in UpdateValues :
           UpdateConfig(k[1], k[2], value)
    \/ \E service_name \in ServiceNames, api_key \in Credentials :
           EnableService(service_name, api_key)
    \/ \E service_name \in ServiceNames : DisableService(service_name)

SpecConfig == InitConfig /\ [][NextConfig]_vars

\* dict.get(key, default) on the configuration's top level, whose keys are
\* the names of its sections (a section is a dict, not a number)
TopLevelGet(cfg, key, default) ==
    IF SectionAbsent(cfg, key) THEN default ELSE 0

\* the sink a DataIngestionPipeline has for a section of the dict it is
\* given: none unless `enabled` is true and the client library could be
\* imported; a connection that could be set up or not
SinkOf(cfg, section, failed) ==
    IF cfg[<<section, "enabled">>] = BoolV(TRUE)
    THEN {"none", failed, "open"}
    ELSE {"none"}

\* what DataIngestionPipeline.__init__ takes from the dict returned by
\* ConfigurationManager.get_config()
PipelineConfigs(cfg) ==
    { [batch_size |-> TopLevelGet(cfg, "batch_size", DefaultBatchSize),
       batch_timeout |-> TopLevelGet(cfg, "batch_timeout", DefaultBatchTimeout),
       kafka |-> k, postgres |-> pg] :
        k \in SinkOf(cfg, "kafka", "no_producer"),
        pg \in SinkOf(cfg, "postgresql", "no_pool") }

\* the environments of the wiring specification: a pipeline setting or the
\* streaming sink's switch
WiringEnvironments ==
    { e \in Environments :
        \A v \in EnvVars :
            e[v] # NotSet =>
                v \in {"PIPELINE_BATCH_SIZE", "PIPELINE_BATCH_TIMEOUT",
                       "KAFKA_ENABLED"} }

\* The wiring specification: a ConfigurationManager is constructed from a
\* file and an environment, and a DataIngestionPipeline from the dict its
\* get_config() returns, as the integration test does; the pipeline is then
\* started at most once and fed valid points by one producer while the
\* clock runs.
InitWiring ==
    /\ \E file \in FileConfigs, env \in WiringEnvironments :
           conf = [state |-> "loaded", file |-> file, env |-> env,
                   config |-> load_configuration(file, env), ops |-> 0,
                   last |-> [NoOp EXCEPT !.op = "load"]]
    /\ Construct(PipelineConfigs(get_config))
    /\ manager = NoManager
    /\ signal_handler = NoSignal

NextWiring ==
    \/ IngestValid(1)
    \/ \E t \in TaskIds : BatchProcessorBegin(t)
    \/ \E t \in TaskIds : BatchProcessorGet(t, TRUE)
    \/ \E t \in TaskIds : BatchProcessorTimeout(t, TRUE)
    \/ StartOnce
    \/ Tick

SpecWiring == InitWiring /\ [][NextWiring]_vars

\* The pool specification: a pipeline whose storage sink is enabled (the
\* pool could be set up or not) is fed valid points by one producer and
\* started and stopped freely while the clock runs; a flush runs as a whole
\* or in the steps of store_batch, between which only the signal handler
\* can run; the streaming sink is disabled.
InitPool ==
    /\ Construct({ c \in Configs : c.kafka = "none" /\ c.postgres # "none" })
    /\ Standalone

NextPool ==
    \/ ~Storing /\ IngestValid(1)
    \/ ~Storing /\ \E t \in TaskIds : BatchProcessorBegin(t)
    \/ ~Storing /\ \E t \in TaskIds : \E write_ok \in BOOLEAN :
                       BatchProcessorGet(t, write_ok)
    \/ ~Storing /\ \E t \in TaskIds : \E write_ok \in BOOLEAN :
                       BatchProcessorTimeout(t, write_ok)
    \/ \E t \in TaskIds : GetThenGetconn(t)
    \/ \E t \in TaskIds : TimeoutThenGetconn(t)
    \/ \E t \in TaskIds : \E write_ok \in BOOLEAN : Commit(t, write_ok)
    \/ \E t \in TaskIds : Putconn(t)
    \/ ~Storing /\ Start
    \/ ~Storing /\ Stop
    \/ Signal
    \/ ~Storing /\ Tick

SpecPool == InitPool /\ [][NextPool]_vars

\* The signal specification: a pipeline with every combination of sinks
\* (batch_size and batch_timeout 1) is fed valid points by one producer,
\* started and stopped freely, while the process receives up to MaxSignals
\* signals and other pipelines may be constructed in it.
InitSignal ==
    /\ Construct({ c \in Configs : c.batch_size = 1 /\ c.batch_timeout = 1 })
    /\ Standalone

NextSignal ==
    \/ IngestValid(1)
    \/ \E t \in TaskIds : BatchProcessorBegin(t)
    \/ \E t \in TaskIds, write_ok \in BOOLEAN : BatchProcessorGet(t, write_ok)
    \/ \E t \in TaskIds, write_ok \in BOOLEAN :
           BatchProcessorTimeout(t, write_ok)
    \/ Start
    \/ Stop
    \/ ConstructOther
    \/ Signal

SpecSignal == InitSignal /\ [][NextSignal]_vars

\* Fairness of the signal specification: the event loop runs every
\* batch-flush task that is ready, and the 0.1 s dequeue wait ends
FairSignal ==
    /\ \A t \in TaskIds : WF_vars(BatchProcessorBegin(t))
    /\ \A t \in TaskIds :
           WF_vars(\E write_ok \in BOOLEAN : BatchProcessorGet(t, write_ok))
    /\ \A t \in TaskIds :
           WF_vars(\E write_ok \in BOOLEAN : BatchProcessorTimeout(t, write_ok))

SpecSignalFair == InitSignal /\ [][NextSignal]_vars /\ FairSignal

(***************************************************************************)
(* Properties                                                              *)
(***************************************************************************)
\* the identity of a point: its producer and the index of the call
PointId(pt) == <<pt.source, pt.metadata>>

\* the positions of seq that hold the point id
Places(id, seq) == { i \in 1..Len(seq) : PointId(seq[i]) = id }

\* this step is producer p entering ingest_data_point
Called(p) == prod[p].pc = "idle" /\ prod'[p].calls = prod[p].calls + 1

\* this step is producer p returning from ingest_data_point
CallReturned(p) == prod'[p].returns = prod[p].returns + 1

\* no call is in progress
AllReturned == \A p \in Producers : prod[p].pc = "idle"

\* a call with a point of price <= 0 or volume < 0 returns False at once,
\* counts one rejection and does nothing else
C1_PerCall ==
    \A p \in Producers :
        (Called(p) /\ IsInvalidPoint(prod'[p].arg)) =>
            /\ CallReturned(p)
            /\ prod'[p].pc = "idle"
            /\ prod'[p].result = FALSE
            /\ metrics' = [metrics EXCEPT !.rejected_points = @ + 1]
            /\ data_queue' = data_queue
            /\ publish_calls' = publish_calls
            /\ topics_created' = topics_created
            /\ price_history' = price_history

\* C1 (as amended): for every point with price <= 0 or volume < 0, ingest
\* returns false, rejected_points increases by exactly 1, the other counters
\* are unchanged and the point is not enqueued, not published and no latency
\* sample is recorded; rejected_points always equals the number of ingest
\* calls that returned false, which is at least the number of such points.
C1_RejectsInvalid ==
    [][/\ C1_PerCall
       /\ metrics'.rejected_points = tally'.returned_false
       /\ metrics'.rejected_points >= tally'.invalid]_vars

\* an invalid point was rejected, and so was a point that is not invalid
C1_Witness ==
    \E p \in Producers :
        /\ prod[p].pc = "idle" /\ prod[p].returns > 0
        /\ IsInvalidPoint(prod[p].arg)
        /\ prod[p].result = FALSE
        /\ metrics.rejected_points > tally.invalid

\* C1 as stated: ... and after any sequence of completed ingest calls
\* rejected_points equals the number of points with price <= 0 or
\* volume < 0 submitted.
C1_AsStated ==
    [][/\ C1_PerCall
       /\ AllReturned' => metrics'.rejected_points = tally'.invalid]_vars

\* C2 as stated: for every valid point (price > 0 and volume >= 0), ingest
\* returns true, valid_points and total_processed each increase by exactly
\* 1, rejected_points is unchanged, and the point is appended to the tail of
\* the queue with a populated timestamp (the current time if it was unset);
\* after completed calls valid_points equals the number of valid points
\* submitted.
C2_AcceptsValid ==
    [][/\ \A p \in Producers :
              (CallReturned(p) /\ IsValidPoint(prod'[p].arg)) =>
                  /\ prod'[p].result = TRUE
                  /\ metrics'.valid_points = metrics.valid_points + 1
                  /\ metrics'.total_processed = metrics.total_processed + 1
                  /\ metrics'.rejected_points = metrics.rejected_points
                  /\ data_queue' = Append(data_queue, prod'[p].obj)
                  /\ prod'[p].obj =
                         [prod'[p].arg EXCEPT !.timestamp =
                             IF @ = 0 THEN now ELSE @]
                  /\ prod'[p].obj.timestamp # 0
       /\ AllReturned' => metrics'.valid_points = tally'.valid]_vars

\* C2 for the points whose topic can be built: the statement of C2 holds of
\* every valid point with a string symbol, and of every valid point when the
\* streaming sink is disabled
C2_AcceptsValidStr ==
    [][\A p \in Producers :
           (CallReturned(p) /\ IsValidPoint(prod'[p].arg)
              /\ ~TopicRaises(prod'[p].arg)) =>
               /\ prod'[p].result = TRUE
               /\ metrics'.valid_points = metrics.valid_points + 1
               /\ metrics'.total_processed = metrics.total_processed + 1
               /\ metrics'.rejected_points = metrics.rejected_points
               /\ data_queue' = Append(data_queue, prod'[p].obj)
               /\ prod'[p].obj =
                      [prod'[p].arg EXCEPT !.timestamp =
                          IF @ = 0 THEN now ELSE @]
               /\ prod'[p].obj.timestamp # 0]_vars

\* the points of the flush specification
FlushIds == {1} \X (1..MaxCalls)

\* the point is in a batch the flush branch has handled
Flushed(id) ==
    \E i \in 1..Len(flushed) : Places(id, flushed[i].batch) # {}

\* ingest returned true for the point (no call has returned false)
Accepted(id) ==
    prod[id[1]].returns >= id[2] /\ tally.returned_false = 0

\* the point is in the queue or in the batch of a flush task that has not
\* ended
InFlight(id) ==
    \/ Places(id, data_queue) # {}
    \/ \E t \in TaskIds :
           tasks[t].pc \in {"new", "wait"} /\ Places(id, tasks[t].batch) # {}

\* C3 (as amended): under fairness of the flush task, every accepted point
\* that is in the queue or in the flush task's batch is eventually contained
\* in a flushed batch, unless the pipeline is not running or is stopped
\* first.
C3_EventuallyFlushed ==
    \A id \in FlushIds : [](InFlight(id) => <>(Flushed(id) \/ ~running))

\* a batch smaller than batch_size was flushed, by the timeout, while the
\* pipeline is running
C3_Witness ==
    /\ running
    /\ \E i \in 1..Len(flushed) :
           /\ Len(flushed[i].batch) < config.batch_size
           /\ \A k \in 1..Len(flushed[i].batch) :
                  Accepted(PointId(flushed[i].batch[k]))

\* C3 as stated: every point for which ingest returned true is eventually
\* contained in a batch flushed by the batch-flush task, under fairness of
\* that task.
C3_AsStated ==
    \A id \in FlushIds : [](Accepted(id) => <>Flushed(id))

\* the points of the concurrent specification
Ids == Producers \X (1..MaxCalls)

\* the places that hold the point: a queue slot, a slot of a task's batch, a
\* slot of a flushed batch
Holders(id) ==
    { <<"queue", 0, i>> : i \in Places(id, data_queue) }
    \cup UNION { { <<"batch", t, i>> : i \in Places(id, tasks[t].batch) } :
                 t \in TaskIds }
    \cup UNION { { <<"flushed", j, i>> : i \in Places(id, flushed[j].batch) } :
                 j \in 1..Len(flushed) }

\* the call for the point has passed put()
Enqueued(id) ==
    \/ prod[id[1]].calls > id[2]
    \/ prod[id[1]].calls = id[2] /\ prod[id[1]].pc = "idle"

\* every call has returned, the queue and the batches are empty
Quiescent ==
    /\ \A p \in Producers : prod[p].returns = MaxCalls
    /\ data_queue = <<>>
    /\ \A t \in TaskIds : tasks[t].batch = <<>>

RECURSIVE Concat(_)
Concat(batches) ==
    IF batches = <<>> THEN <<>>
    ELSE Head(batches).batch \o Concat(Tail(batches))

C5_Idempotent ==
    /\ running => start(Lifecycle) = Lifecycle
    /\ (running \/ FreeTasks(tasks) # {}) =>
           start(start(Lifecycle)) = start(Lifecycle)
    /\ ~running => stop(Lifecycle) = Lifecycle
    /\ stop(stop(Lifecycle)) = stop(Lifecycle)
    /\ last_call = "start_noop" => running
    /\ last_call = "stop_noop" => ~running

\* start() was called on a running pipeline some time after it was started:
\* one flush task exists and start_time is the earlier reading
C5_Witness ==
    /\ last_call = "start_noop"
    /\ running
    /\ Cardinality({ t \in TaskIds : tasks[t].pc # "none" }) = 1
    /\ metrics.start_time # 0 /\ metrics.start_time < now
    /\ postgres = "open"

\* the flush condition of the specification, for a batch and the time of
\* the previous flush
FlushDue(batch, last_flush) ==
    \/ Len(batch) >= config.batch_size
    \/ (batch # <<>> /\ now - last_flush >= config.batch_timeout)

\* this step appends one record to flushed
OneFlush == Len(flushed') = Len(flushed) + 1
                /\ SubSeq(flushed', 1, Len(flushed)) = flushed

LastFlushed == flushed'[Len(flushed')]

\* this step is a loop iteration of task t that dequeued a point
GetBy(t) ==
    /\ tasks[t].pc = "wait"
    /\ data_queue # <<>> /\ data_queue' = Tail(data_queue)
    /\ \A u \in TaskIds \ {t} : tasks'[u] = tasks[u]
    /\ flushed' # flushed => LastFlushed.task = t

\* this step is a loop iteration of task t whose dequeue timed out and that
\* flushed, or that ended the loop
TimeoutBy(t) ==
    /\ tasks[t].pc = "wait"
    /\ data_queue' = data_queue
    /\ \/ flushed' # flushed /\ LastFlushed.task = t
       \/ flushed' = flushed /\ tasks'[t].pc = "done"

\* what an iteration of task t with batch b at its flush test does
IterationFlushesIffDue(t, b) ==
    IF FlushDue(b, tasks[t].last_flush)
    THEN /\ OneFlush
         /\ LastFlushed.batch = b
         /\ tasks'[t].batch = <<>>
         /\ metrics'.last_batch_time = now
    ELSE /\ flushed' = flushed
         /\ tasks'[t].batch = b

\* C6: in the batch-flush loop a flush happens exactly when the batch has
\* reached batch_size, or is non-empty and the time since the previous flush
\* has reached batch_timeout; no flushed batch and no in-memory batch holds
\* more than batch_size points, and an empty batch is never flushed.
C6_FlushInvariant ==
    [][/\ \A t \in TaskIds :
              /\ GetBy(t) =>
                     IterationFlushesIffDue(t,
                         Append(tasks[t].batch, Head(data_queue)))
              /\ TimeoutBy(t) => IterationFlushesIffDue(t, tasks[t].batch)
       /\ flushed' # flushed =>
              /\ OneFlush
              /\ \E t \in TaskIds : GetBy(t) \/ TimeoutBy(t)
       /\ \A j \in 1..Len(flushed') :
              /\ flushed'[j].batch # <<>>
              /\ Len(flushed'[j].batch) <= config.batch_size
       /\ \A t \in TaskIds : Len(tasks'[t].batch) <= config.batch_size]_vars

\* a batch of the largest batch_size was flushed on reaching it, no time
\* having passed since start()
C6_Witness ==
    /\ running /\ metrics.start_time = now
    /\ config.batch_size = MaxBatchSize
    /\ \E j \in 1..Len(flushed) :
           Len(flushed[j].batch) = config.batch_size

\* C7: the queue never holds more than its capacity; an ingest call for a
\* valid point that finds the queue full suspends without enqueuing,
\* counting or returning, and enqueues its point at the tail when a slot is
\* free; every call for a valid point that returns has enqueued its point.
C7_Backpressure ==
    /\ [](Len(data_queue) <= QueueMaxSize)
    /\ [][\A p \in Producers :
              /\ (Called(p) /\ IsValidPoint(prod'[p].arg)
                    /\ Len(data_queue) = QueueMaxSize) =>
                     /\ prod'[p].pc = "put"
                     /\ ~CallReturned(p)
                     /\ prod'[p].obj.timestamp # 0
                     /\ data_queue' = data_queue
                     /\ metrics' = metrics
                     /\ publish_calls' = publish_calls
              /\ prod[p].pc = "put" =>
                     \/ /\ prod'[p].pc = "put"
                        /\ prod'[p].obj = prod[p].obj
                        /\ ~CallReturned(p)
                     \/ /\ Len(data_queue) < QueueMaxSize
                        /\ data_queue' = Append(data_queue, prod[p].obj)
                        /\ CallReturned(p)
              /\ (CallReturned(p) /\ IsValidPoint(prod'[p].arg)) =>
                     data_queue' = Append(data_queue, prod'[p].obj)]_vars

\* a producer is suspended in put() on a full queue
C7_Witness ==
    \E p \in Producers :
        /\ prod[p].pc = "put"
        /\ Len(data_queue) = QueueMaxSize
        /\ Places(PointId(prod[p].obj), data_queue) = {}

\* the points of the anomaly probe, for the symbol of the run
AnomalyProbe ==
    { MarketDataPoint(sym, 1, pr, "float", 1, 1, 0) :
        sym \in {"AAPL", NonStrSymbol}, pr \in {2, 4} }

\* C8 as stated: for any point with price > 0 and volume >= 0, validate and
\* ingest return true whatever the symbol's history is, including a price
\* that deviates by more than 50% from the mean of the last 10 prices of a
\* history of more than 10.
C8_AnomalyNeverBlocks ==
    /\ [](\A pt \in AnomalyProbe :
              validate_price_data(pt, price_history).ok)
    /\ [][\A p \in Producers :
              (CallReturned(p) /\ IsValidPoint(prod'[p].arg)) =>
                  prod'[p].result = TRUE]_vars

\* C8 for validate, and for ingest where the topic can be built
C8_ValidateNeverBlocks ==
    /\ [](\A pt \in AnomalyProbe :
              validate_price_data(pt, price_history).ok)
    /\ [][\A p \in Producers :
              (CallReturned(p) /\ IsValidPoint(prod'[p].arg)
                 /\ ~TopicRaises(prod'[p].arg)) =>
                  prod'[p].result = TRUE]_vars

\* a point at twice the level of a full history of stable prices was flagged
\* and accepted
C8_AnomalyAccepted ==
    /\ anomaly_logged
    /\ prod[1].pc = "idle" /\ prod[1].returns = MaxAnomalyCalls
    /\ prod[1].result = TRUE
    /\ prod[1].arg.price = 4
    /\ Len(price_history["AAPL"]) = MaxHistory
    /\ \A i \in 1..(MaxHistory - 1) : price_history["AAPL"][i] = 2

ExpectedTopic(symbol) ==
    CASE symbol = "AAPL" -> "market_data_aapl"
      [] symbol = "Msft" -> "market_data_msft"
      [] OTHER -> "?"

\* C10: with the streaming sink enabled each accepted point is handed to
\* publish at most once, on the topic market_data_<lowercase symbol>; the
\* call that publishes returns true, counts the point as valid and leaves it
\* on the queue whatever publish returns, and a failed publish is not
\* repeated.
C10_PublishOnce ==
    /\ [](/\ \A i \in 1..Len(publish_calls) :
                /\ publish_calls[i].topic =
                       ExpectedTopic(publish_calls[i].point.symbol)
                /\ Places(PointId(publish_calls[i].point),
                          [j \in 1..Len(publish_calls) |->
                              publish_calls[j].point]) = {i}
          /\ kafka = "none" => publish_calls = <<>>)
    /\ [][/\ publish_calls' # publish_calls =>
                \E p \in Producers :
                    /\ CallReturned(p)
                    /\ Len(publish_calls') = Len(publish_calls) + 1
                    /\ SubSeq(publish_calls', 1, Len(publish_calls))
                           = publish_calls
                    /\ publish_calls'[Len(publish_calls')].point = prod'[p].obj
                    /\ prod'[p].result = TRUE
                    /\ data_queue' = Append(data_queue, prod'[p].obj)
                    /\ metrics'.valid_points = metrics.valid_points + 1
                    /\ metrics'.rejected_points = metrics.rejected_points
          /\ \A p \in Producers :
                (CallReturned(p) /\ prod'[p].result = TRUE
                   /\ kafka # "none") =>
                    Len(publish_calls') = Len(publish_calls) + 1]_vars

\* a publish failed for a point whose call returned true and which is on
\* the queue
C10_Witness ==
    \E i \in 1..Len(publish_calls) :
        /\ publish_calls[i].result = FALSE
        /\ publish_calls[i].topic = "market_data_msft"
        /\ Places(PointId(publish_calls[i].point), data_queue) # {}
        /\ prod[publish_calls[i].point.source].result = TRUE
        /\ prod[publish_calls[i].point.source].obj = publish_calls[i].point
        /\ kafka = "open"

\* the rows of the flushed batches whose write succeeded, in flush order
RECURSIVE ConcatStored(_)
ConcatStored(batches) ==
    IF batches = <<>> THEN <<>>
    ELSE (IF Head(batches).stored THEN Head(batches).batch ELSE <<>>)
             \o ConcatStored(Tail(batches))

\* C11: a flush hands the batch to storage as one all-or-nothing write: the
\* table gains the whole batch when the write succeeds and nothing when it
\* fails; a failed batch is discarded (it is in no queue, batch, later flush
\* or table row afterwards); in both cases the in-memory batch is cleared
\* and the flush timer reset, and the loop goes on while the pipeline runs.
C11_AtomicFlush ==
    /\ [](/\ market_data = ConcatStored(flushed)
          /\ \A j \in 1..Len(flushed) :
                 \A k \in 1..Len(flushed[j].batch) :
                     LET id == PointId(flushed[j].batch[k])
                     IN  /\ Holders(id) = {<<"flushed", j, k>>}
                         /\ ~flushed[j].stored =>
                                Places(id, market_data) = {})
    /\ [][flushed' # flushed =>
              /\ OneFlush
              /\ market_data' =
                     IF LastFlushed.stored
                     THEN market_data \o LastFlushed.batch
                     ELSE market_data
              /\ LastFlushed.stored =>
                     (postgres = "open" /\ LastFlushed.batch # <<>>)
              /\ LET t == LastFlushed.task
                 IN  /\ tasks'[t].batch = <<>>
                     /\ tasks'[t].pc = IF running THEN "wait" ELSE "done"
                     /\ running => tasks'[t].last_flush = now
                     /\ metrics'.last_batch_time = now]_vars

\* a write failed on an open pool and the same task stored a later batch
C11_Witness ==
    \E i, j \in 1..Len(flushed) :
        /\ i < j
        /\ ~flushed[i].stored /\ flushed[j].stored
        /\ flushed[i].task = flushed[j].task
        /\ postgres = "open"
        /\ market_data = flushed[j].batch

(***************************************************************************)
(* DataConnectorManager                                                    *)
(***************************************************************************)
\* the sources start_data_collection makes a task for
Equipped == { s \in Sources : manager.config[s].enabled
                              /\ manager.config[s].credential # "" }

Enabled == { s \in Sources : manager.config[s].enabled }

Ended(s) == manager.task[s].pc \in {"done", "raised"}

Failed(s) == manager.task[s].pc # "raised" /\ manager'.task[s].pc = "raised"

\* C13: a failure in one connector task ends no sibling task and does not
\* end the collection call: start_data_collection returns only once every
\* connector task has ended.
C13_FailureIsolation ==
    /\ [][\A s \in Sources : Failed(s) =>
              \A o \in Sources \ {s} : manager'.task[o] = manager.task[o]]_vars
    /\ [](manager.call = "returned" => \A s \in CollectionTasks : Ended(s))

\* the part of C13 that holds: no step of a connector task, failing or not,
\* changes another task, and a task only ends by its own step
C13_SiblingsUntouched ==
    [][\A s \in Sources : manager'.task[s] # manager.task[s] =>
           \/ manager.call = "none"
           \/ \A o \in Sources \ {s} : manager'.task[o] = manager.task[o]]_vars

\* the collection call has returned with a logged error while a sibling of
\* the failed task is still collecting
C13_CallEndedEarly ==
    /\ manager.call = "returned"
    /\ manager.error_logged
    /\ \E s, o \in CollectionTasks :
           /\ manager.task[s].pc = "raised"
           /\ manager.task[o].pc \in {"fetch", "sleep", "recv"}

\* stop() was called after collection started (start_data_collection is the
\* only place that sets the flag, and it is called once)
ManagerStopped == manager.call # "none" /\ ~manager.running

\* C14: after DataConnectorManager.stop(), every connector task eventually
\* ends, the push-based one included.
C14_StopEndsEveryTask ==
    ManagerStopped ~> \A s \in CollectionTasks : Ended(s)

\* the part of C14 that holds: after stop() every poll task eventually ends
C14_StopEndsPollTasks ==
    ManagerStopped ~> \A s \in CollectionTasks \cap PollSources : Ended(s)

\* stop() leaves every task, session and websocket as it was
C14_StopOnlyClearsFlag ==
    [][manager'.running # manager.running /\ ~manager'.running =>
           manager' = [manager EXCEPT !.running = FALSE]]_vars

\* the manager is stopped and the push task still waits for a message on
\* its open websocket
C14_PushTaskStillReceiving ==
    /\ ManagerStopped
    /\ manager.task["finnhub"].pc = "recv"
    /\ manager.task["finnhub"].websocket = "open"

(***************************************************************************)
(* ConfigurationManager                                                    *)
(***************************************************************************)
\* the manager as its constructor left it
JustLoaded == conf.state = "loaded" /\ conf.last.op = "load"

\* the variable that overrides the key, if the whitelist has one
Overriding(k) == { m \in env_mappings : m[2] = k[1] /\ m[3] = k[2] }

Overridden(k) ==
    \E m \in Overriding(k) :
        conf.env[m[1]] # NotSet /\ Convertible(m[4], conf.env[m[1]])

\* the value precedence gives the key: the converted environment value, else
\* the file's value, else the default
ByPrecedence(k) ==
    IF Overridden(k)
    THEN LET m == CHOOSE m \in Overriding(k) : TRUE
         IN  Convert(m[4], conf.env[m[1]])
    ELSE IF conf.file[k] # Absent THEN conf.file[k]
    ELSE get_default_config[k]

Validated == {<<"pipeline", "batch_size">>, <<"pipeline", "batch_timeout">>}

\* C15 (as the code has it): after the load every key has the value
\* precedence gives it (the converted environment value of a set and
\* convertible whitelisted variable, else the file's value, else the
\* default), except that a pipeline.batch_size or pipeline.batch_timeout
\* which precedence leaves at or below zero is replaced by its default,
\* whether it came from the environment or from the file.
C15_EnvOverridesThenValidation ==
    JustLoaded =>
        \A k \in ConfigKeys :
            get_config[k] =
                IF k \in Validated /\ NonPositive(ByPrecedence(k))
                THEN get_default_config[k]
                ELSE ByPrecedence(k)

\* the file gives batch_size 7 and PIPELINE_BATCH_SIZE is "5": the key is
\* the integer 5
C15_Witness ==
    /\ JustLoaded
    /\ conf.env["PIPELINE_BATCH_SIZE"] = "5"
    /\ conf.file[<<"pipeline", "batch_size">>] = IntV(7)
    /\ get_config[<<"pipeline", "batch_size">>] = IntV(5)

\* C15 as stated: after the load every key has the value precedence gives it
C15_AsStated ==
    JustLoaded => \A k \in ConfigKeys : get_config[k] = ByPrecedence(k)

\* a call of update_config, enable_service or disable_service returns
OpBy(op) == conf'.ops = conf.ops + 1 /\ conf'.last.op = op

\* the configuration after the step differs from the one before at most at
\* the given keys
OnlyChanged(keys) ==
    \A k \in ConfigKeys \ keys : conf'.config[k] = conf.config[k]

\* C16 (as the code has it): update_config(section, key, value) makes
\* get_config()[section][key] the value and changes no other key.
\* enable_service(s, credential) of a known service sets s.enabled to true,
\* stores a credential that is given and not empty under the service's key
\* field (bearer_token for twitter, api_key otherwise), leaves the stored
\* credential alone when none or an empty one is given, and changes no
\* other key; disable_service(s) sets s.enabled to false and changes no
\* other key; for a name that is no section of the configuration both
\* change nothing.
C16_UpdatesVisibleAndLocal ==
    [][LET s == conf'.last.section
           cred == conf'.last.api_key
       IN  /\ OpBy("update") =>
                 /\ conf'.config[<<s, conf'.last.key>>] = conf'.last.value
                 /\ OnlyChanged({<<s, conf'.last.key>>})
           /\ (OpBy("enable") /\ SectionAbsent(conf.config, s)) =>
                 conf'.config = conf.config
           /\ (OpBy("enable") /\ ~SectionAbsent(conf.config, s)) =>
                 /\ conf'.config[<<s, "enabled">>] = BoolV(TRUE)
                 /\ conf'.config[<<s, KeyField(s)>>] =
                        IF Truthy(cred) THEN StrV(cred)
                        ELSE conf.config[<<s, KeyField(s)>>]
                 /\ OnlyChanged({<<s, "enabled">>, <<s, KeyField(s)>>})
           /\ (OpBy("disable") /\ SectionAbsent(conf.config, s)) =>
                 conf'.config = conf.config
           /\ (OpBy("disable") /\ ~SectionAbsent(conf.config, s)) =>
                 /\ conf'.config[<<s, "enabled">>] = BoolV(FALSE)
                 /\ OnlyChanged({<<s, "enabled">>})]_vars

\* enable_service("twitter", "newkey") has stored the token under
\* bearer_token, over the one of the file, and created no api_key
C16_Witness ==
    /\ conf.last.op = "enable"
    /\ conf.last.section = "twitter"
    /\ conf.last.api_key = "newkey"
    /\ conf.file[<<"twitter", "bearer_token">>] = StrV("filetoken")
    /\ get_config[<<"twitter", "enabled">>] = BoolV(TRUE)
    /\ get_config[<<"twitter", "bearer_token">>] = StrV("newkey")
    /\ get_config[<<"twitter", "api_key">>] = Absent

\* C16 as stated: enable_service(s, credential) stores the credential it is
\* given under the service's key field
C16_AsStated ==
    [][(OpBy("enable") /\ ~SectionAbsent(conf.config, conf'.last.section)
            /\ conf'.last.api_key # NotSet) =>
           conf'.config[<<conf'.last.section, KeyField(conf'.last.section)>>]
               = StrV(conf'.last.api_key)]_vars

(***************************************************************************)
(* Signals                                                                 *)
(***************************************************************************)
Signalled == signal_handler'.received = signal_handler.received + 1

SinksReleased == kafka # "open" /\ postgres # "open"

\* C17: on receipt of SIGTERM or SIGINT a running pipeline is stopped: after
\* the handler it is not running and its sinks are closed.
C17_SignalStops ==
    [][(Signalled /\ running) => (~running' /\ SinksReleased')]_vars

\* the part of C17 that holds: the pipeline whose handler is installed is
\* stopped by the signal, restarted or not
C17_OwnHandlerStops ==
    [][(Signalled /\ running /\ signal_handler.owner = "self") =>
           (~running' /\ SinksReleased')]_vars

\* a signal was received while this pipeline was running with an open sink
\* and another pipeline's handler installed: it is still running
C17_SignalMissed ==
    /\ signal_handler.received > 0
    /\ signal_handler.owner = "other"
    /\ running
    /\ last_call = "start"
    /\ kafka = "open" /\ postgres = "open"

(***************************************************************************)
(* Lifecycle of the batch-flush task                                       *)
(***************************************************************************)
\* the batch-flush tasks that are alive: created and not yet returned
Alive == { t \in TaskIds : tasks[t].pc \in {"new", "wait"} }

\* C18: for any sequence of start() and stop() calls at most one batch-flush
\* task is alive at any time.
C18_SingleConsumer == Cardinality(Alive) <= 1

\* stop() then start() left two tasks alive on a running pipeline, both
\* suspended in the dequeue, and each of them has flushed a batch since
C18_TwoConsumers ==
    /\ running
    /\ Cardinality(Alive) = 2
    /\ \A t \in Alive : tasks[t].pc = "wait"
    /\ \E i, j \in 1..Len(flushed) :
           /\ i < j
           /\ flushed[i].task # flushed[j].task
           /\ {flushed[i].task, flushed[j].task} = Alive

\* the part of C18 that holds: a pipeline that is started once, stopped or
\* not, never has more than one task
C18_OneTaskPerStart ==
    Cardinality({ t \in TaskIds : tasks[t].pc # "none" }) <= 1

\* a batch-flush task takes a step
Stepped(t) ==
    tasks'[t].pc # tasks[t].pc \/ tasks'[t].batch # tasks[t].batch

\* C19: a stop() of a running pipeline (by the application or by the signal
\* handler) leaves the running flag false and no sink open, and no sink is
\* opened again; a flush task that runs while the pipeline is stopped ends
\* with that step, which is
\* the end of its current dequeue wait; so after stop() every flush task
\* eventually ends unless start() is called again.
C19_StopEndsLoop ==
    /\ [][running /\ ~running' => SinksReleased']_vars
    /\ [][SinksReleased => SinksReleased']_vars
    /\ [][\A t \in TaskIds :
              (~running /\ ~running' /\ Stepped(t)) => tasks'[t].pc = "done"]_vars
    /\ (~running ~> (running \/ Alive = {}))

\* stop() closed an open streaming client and an open pool, and the flush
\* task has ended since
C19_Witness ==
    /\ ~running
    /\ last_call = "stop"
    /\ config.kafka = "open" /\ kafka = "closed"
    /\ config.postgres = "open" /\ postgres = "closed"
    /\ \E t \in TaskIds : tasks[t].pc = "done"
    /\ Alive = {}

\* the point is in the in-memory batch of a flush task that has not ended
InBatch(id) == \E t \in Alive : Places(id, tasks[t].batch) # {}

\* the point is in the storage sink
Stored(id) == Places(id, market_data) # {}

\* C20: a point that is in a flush task's in-memory batch when the pipeline
\* is stopped is never written to the storage sink: not by the task's last
\* iteration, which may still try to flush it, and not after a restart.
\* From stop() on the storage sink is not written to at all.
C20_BatchDiscardedOnStop ==
    /\ \A id \in FlushIds : []((~running /\ InBatch(id)) => []~Stored(id))
    /\ [][(running /\ ~running') => postgres' # "open"]_vars
    /\ [][postgres # "open" =>
              (postgres' # "open" /\ market_data' = market_data)]_vars

\* stop() has just been called on a pipeline whose storage had taken a
\* batch before and whose flush task holds a point in its batch
C20_Witness ==
    /\ ~running
    /\ last_call = "stop"
    /\ config.postgres = "open" /\ postgres = "closed"
    /\ market_data # <<>>
    /\ \E t \in Alive : /\ tasks[t].pc = "wait"
                       /\ tasks[t].batch # <<>>
                       /\ Len(tasks[t].batch) < config.batch_size

\* what becomes of such a point: the task's last iteration dequeued a
\* second point, tried to flush both to the closed pool and dropped them
C20_FlushAttemptAfterStop ==
    /\ ~running
    /\ postgres = "closed"
    /\ market_data = <<>>
    /\ \E j \in 1..Len(flushed) :
           /\ Len(flushed[j].batch) = MaxBatchSize
           /\ ~flushed[j].stored
           /\ tasks[flushed[j].task].pc = "done"
           /\ tasks[flushed[j].task].batch = <<>>

(***************************************************************************)
(* The point objects                                                       *)
(***************************************************************************)
\* the fields of a point other than its timestamp
SameButTimestamp(a, b) == [a EXCEPT !.timestamp = 0] = [b EXCEPT !.timestamp = 0]

\* C21: for every point passed to ingest_data_point, all fields of the
\* caller's object after the call equal its fields at the call.
C21_PointImmutable ==
    \A p \in Producers : prod[p].calls > 0 => prod[p].obj = prod[p].arg

\* the part of C21 that holds: only the timestamp is ever assigned, only
\* when the point came without one and passed validation, so that every
\* queued point has a timestamp
C21_OnlyTimestampAssigned ==
    /\ \A p \in Producers : prod[p].calls > 0 =>
           /\ SameButTimestamp(prod[p].obj, prod[p].arg)
           /\ prod[p].arg.timestamp # 0 => prod[p].obj = prod[p].arg
           /\ prod[p].obj # prod[p].arg =>
                  (IsValidPoint(prod[p].arg) /\ prod[p].obj.timestamp = now)
    /\ \A i \in 1..Len(data_queue) : data_queue[i].timestamp # 0

\* a valid point passed without a timestamp came back from ingest with one
C21_TimestampAssigned ==
    \E p \in Producers :
        /\ prod[p].pc = "idle" /\ prod[p].returns = 1 /\ prod[p].result
        /\ prod[p].arg.timestamp = 0
        /\ prod[p].obj.timestamp = now
        /\ data_queue # <<>> /\ data_queue[Len(data_queue)] = prod[p].obj

(***************************************************************************)
(* Ordering                                                                *)
(***************************************************************************)
\* the points of producer p in the sequence are in the order of its calls
InCallOrder(seq, p) ==
    \A i, j \in 1..Len(seq) :
        (i < j /\ seq[i].source = p /\ seq[j].source = p) =>
            seq[i].metadata < seq[j].metadata

\* the batches of the flush tasks, one after the other
RECURSIVE TaskBatches(_)
TaskBatches(t) ==
    IF t > MaxTasks THEN <<>> ELSE tasks[t].batch \o TaskBatches(t + 1)

\* the points in the order they were dequeued (flushed batches, then the
\* batch in memory), followed by those still queued in queue order
DequeueLine == Concat(flushed) \o TaskBatches(1) \o data_queue

\* C22: the points one producer ingested sequentially are queued, dequeued
\* and placed into batches in the order of its calls, a point it is still
\* trying to put comes after all of them, a dequeue takes the oldest queued
\* point and puts it at the end of the batch, and a flushed batch is handed
\* to storage in that order.  (Points of different producers interleave.)
C22_FifoPerProducer ==
    /\ [](\A p \in Producers :
              /\ InCallOrder(DequeueLine, p)
              /\ InCallOrder(market_data, p)
              /\ prod[p].pc = "put" =>
                     InCallOrder(Append(DequeueLine, prod[p].obj), p))
    /\ [][\A t \in TaskIds :
              (tasks[t].pc = "wait" /\ data_queue' # data_queue
                   /\ Len(data_queue') < Len(data_queue)
                   /\ tasks'[t] # tasks[t]) =>
                  /\ data_queue' = Tail(data_queue)
                  /\ IF flushed' # flushed
                     THEN /\ OneFlush
                          /\ LastFlushed.batch =
                                 Append(tasks[t].batch, Head(data_queue))
                          /\ market_data' = market_data \o LastFlushed.batch
                     ELSE tasks'[t].batch =
                              Append(tasks[t].batch, Head(data_queue))]_vars

\* both producers' points are stored interleaved, each producer's own in
\* the order of its calls, after a batch of two was flushed
C22_Witness ==
    /\ Len(market_data) = NumProducers * MaxCalls
    /\ \E i, j \in 1..Len(market_data) :
           /\ i < j
           /\ market_data[i].source = 2 /\ market_data[j].source = 1
           /\ market_data[i].metadata = 2 /\ market_data[j].metadata = 2
    /\ market_data[1].source = 1
    /\ \E k \in 1..Len(flushed) : Len(flushed[k].batch) = MaxBatchSize

(***************************************************************************)
(* Validator history                                                       *)
(***************************************************************************)
\* the call of ingest made in this step, if any
CallMade(p) == prod'[p].calls = prod[p].calls + 1

\* C23: a history never has more than MaxHistory entries and holds positive
\* prices only; it changes only in a call whose point the validator
\* accepts, and then only the history of that point's symbol, which gets the
\* price at its end and loses its oldest entry if it was at capacity; a
\* call with a point the validator rejects leaves every history unchanged.
C23_HistoryOfAcceptedPrices ==
    /\ [](\A sym \in DOMAIN price_history :
              /\ Len(price_history[sym]) <= MaxHistory
              /\ \A i \in 1..Len(price_history[sym]) :
                     price_history[sym][i] > 0)
    /\ [][\A sym \in DOMAIN price_history :
              LET h == price_history[sym]
                  n == Len(h)
              IN  \/ price_history'[sym] = h
                  \/ \E p \in Producers :
                         /\ CallMade(p)
                         /\ IsValidPoint(prod'[p].arg)
                         /\ prod'[p].arg.symbol = sym
                         /\ price_history'[sym] =
                                IF n < MaxHistory
                                THEN h \o <<prod'[p].arg.price>>
                                ELSE SubSeq(h, 2, n)
                                         \o <<prod'[p].arg.price>>]_vars
    /\ [][\A p \in Producers :
              CallMade(p) =>
                  IF IsValidPoint(prod'[p].arg)
                  THEN price_history'[prod'[p].arg.symbol]
                           # price_history[prod'[p].arg.symbol]
                       \/ \A i \in 1..MaxHistory :
                              price_history[prod'[p].arg.symbol][i]
                                  = prod'[p].arg.price
                  ELSE price_history' = price_history]_vars

\* a history at capacity that has evicted (its oldest price is not the
\* first price accepted), next to a second history, after rejected points
C23_Witness ==
    /\ Len(price_history["AAPL"]) = MaxHistory
    /\ price_history["AAPL"][1] = 4
    /\ price_history["AAPL"][MaxHistory] = 2
    /\ \A i \in 2..(MaxHistory - 1) : price_history["AAPL"][i] = 2
    /\ Len(price_history["Msft"]) = 1
    /\ prod[1].calls = MaxValidations
    /\ ~IsValidPoint(prod[1].arg)
    /\ ~prod[1].result

(***************************************************************************)
(* Rate limiting                                                           *)
(***************************************************************************)
\* the poll connector s starts a provider call in this step
CallStarts(s) ==
    manager.task[s].pc # "fetch" /\ manager'.task[s].pc = "fetch"

\* C24: a poll connector that made a provider call starts its next one only
\* after it has slept its rate-limit delay, whatever the earlier call's
\* outcome.
C24_RateLimitBetweenCalls ==
    [][\A s \in PollSources :
          CallStarts(s) => manager.task[s].after_call # "no_sleep"]_vars

\* what the code does: the rate-limit sleep is taken by Alpha Vantage only,
\* directly after a call, and it is followed by the interval sleep; every
\* other connector goes from a call to the interval sleep
C24_RateLimitAlphaVantageOnly ==
    /\ [][\A s \in Sources :
              manager'.task[s].pc = "rate_sleep" =>
                  /\ s = "alpha_vantage"
                  /\ manager.task[s].pc \in {"fetch", "rate_sleep"}]_vars
    /\ [][\A s \in Sources :
              (manager.task[s].pc = "rate_sleep"
                   /\ manager'.task[s].pc # "rate_sleep") =>
                  manager'.task[s].pc \in {"sleep", "raised"}]_vars
    /\ [][\A s \in PollSources \ {"alpha_vantage"} :
              (manager.task[s].pc = "fetch"
                   /\ manager'.task[s].pc # "fetch") =>
                  manager'.task[s].pc \in {"sleep", "raised"}]_vars

\* a connector other than Alpha Vantage is in its second call, with only
\* the interval sleep since the first
C24_CallWithoutRateLimit ==
    \E s \in PollSources \ {"alpha_vantage"} :
        /\ manager.task[s].pc = "fetch"
        /\ manager.task[s].after_call = "no_sleep"
        /\ manager.running

\* Alpha Vantage is in a call that follows a rate-limit sleep
C24_CallAfterRateLimit ==
    /\ manager.task["alpha_vantage"].pc = "fetch"
    /\ manager.task["alpha_vantage"].after_call = "rate_sleep"

(***************************************************************************)
(* Connector failures                                                      *)
(***************************************************************************)
\* the push connector lost its connection while the orchestrator is running
ConnectionIsLost ==
    /\ manager.running
    /\ manager.task["finnhub"].pc = "done"
    /\ manager.task["finnhub"].websocket = "closed"

\* the poll connector s is in the interval sleep after a call that failed
\* or brought nothing, while the orchestrator is running
SleepsAfterFailure(s) ==
    /\ manager.running
    /\ manager.task[s].pc = "sleep"
    /\ manager.task[s].after_call = "no_sleep"

\* C25: while the orchestrator is running, a poll connector whose call
\* failed makes its next call after the interval sleep, and a push connector
\* that lost its connection gets a connection again.
C25_ConnectorSurvivesFailures ==
    /\ \A s \in PollSources :
           SleepsAfterFailure(s) ~>
               (manager.task[s].pc = "fetch" \/ ~manager.running)
    /\ ConnectionIsLost ~>
           (manager.task["finnhub"].websocket = "open" \/ ~manager.running)

\* the part of C25 that holds: the poll connectors go on after a failed call
C25_PollConnectorContinues ==
    /\ \A s \in PollSources :
           SleepsAfterFailure(s) ~>
               (manager.task[s].pc = "fetch" \/ ~manager.running)
    /\ [][\A s \in PollSources :
              (manager.task[s].pc = "fetch" /\ manager'.task[s].pc # "fetch"
                   /\ manager.config[s].interval = "number") =>
                  manager'.task[s].pc \in {"rate_sleep", "sleep"}]_vars

\* what the code does after a connection loss: the task of the push
\* connector has returned and its websocket stays closed
C25_NeverReconnects ==
    [][manager.task["finnhub"].websocket = "closed" =>
           manager'.task["finnhub"] = manager.task["finnhub"]]_vars

\* a poll connector in its next call after a failed one, and the push
\* connector without a connection, while the orchestrator is running
C25_LostAndPolling ==
    /\ ConnectionIsLost
    /\ \E s \in PollSources :
           /\ manager.task[s].pc = "fetch"
           /\ manager.task[s].after_call = "no_sleep"

(***************************************************************************)
(* Pipeline settings                                                       *)
(***************************************************************************)
\* the value the configuration has for a pipeline-level setting
Configured(key) == conf.config[<<"pipeline", key>>].num

\* C26: the batch size, batch timeout and queue capacity a running pipeline
\* works with are the batch_size, batch_timeout and max_queue_size of the
\* configuration it was constructed with.
C26_SettingsHonoured ==
    running =>
        /\ config.batch_size = Configured("batch_size")
        /\ config.batch_timeout = Configured("batch_timeout")
        /\ QueueCapacity = Configured("max_queue_size")

\* what the code does: a pipeline constructed with the dict of a
\* ConfigurationManager works with the built-in values, whatever the file
\* and the environment say
C26_BuiltInSettings ==
    /\ config.batch_size = DefaultBatchSize
    /\ config.batch_timeout = DefaultBatchTimeout
    /\ Len(data_queue) <= QueueMaxSize

\* a running pipeline whose configuration asks for batches of 5, and which
\* holds a batch without having flushed by size
C26_ConfiguredFive ==
    /\ running
    /\ Configured("batch_size") = 5
    /\ conf.env["PIPELINE_BATCH_SIZE"] = "5"
    /\ config.batch_size = DefaultBatchSize
    /\ \E t \in TaskIds : Len(tasks[t].batch) = 2

(***************************************************************************)
(* Publishing and queueing                                                 *)
(***************************************************************************)
\* the point was handed to the streaming sink
Published(pt) ==
    \E i \in 1..Len(publish_calls) : publish_calls[i].point = pt

\* C27: a valid point whose enqueue is suspended on a full queue has
\* already been handed to the streaming sink.
C27_PublishIndependentOfQueueing ==
    \A p \in Producers :
        (prod[p].pc = "put" /\ kafka # "none") => Published(prod[p].obj)

\* what the code does: a point is handed to the streaming sink in the step
\* that has put it at the end of the queue, and never while its producer
\* is suspended in put()
C27_PublishAfterPut ==
    /\ [][publish_calls' # publish_calls =>
              /\ Len(publish_calls') = Len(publish_calls) + 1
              /\ SubSeq(publish_calls', 1, Len(publish_calls)) = publish_calls
              /\ data_queue' =
                     Append(data_queue,
                            publish_calls'[Len(publish_calls')].point)]_vars
    /\ [](\A p \in Producers :
              prod[p].pc = "put" => ~Published(prod[p].obj))

\* a producer is suspended on the full queue of a pipeline with a streaming
\* sink that took the earlier points, and its point is not published
C27_SuspendedUnpublished ==
    \E p \in Producers :
        /\ prod[p].pc = "put"
        /\ kafka = "open"
        /\ QueueFull(data_queue)
        /\ Len(publish_calls) = QueueMaxSize
        /\ ~Published(prod[p].obj)

\* the suspended point is published once the queue had room for it
C27_PublishedAfterResume ==
    \E p \in Producers :
        /\ prod[p].pc = "idle" /\ prod[p].returns = MaxCalls
        /\ Len(publish_calls) > QueueMaxSize
        /\ publish_calls[Len(publish_calls)].point = prod[p].obj
        /\ Len(market_data) + Len(flushed) > 0

(***************************************************************************)
(* Connection pool                                                         *)
(***************************************************************************)
\* C28: no connection is checked out while no storage call is in progress,
\* and never more than the pool's maximum.
C28_ConnectionsReturned ==
    /\ checked_out <= PoolMaxConn
    /\ ~Storing => checked_out = 0

\* what the code guarantees: at most one connection is checked out, only
\* by a call in progress or from a pool that was closed during the call;
\* a call that ends on an open pool has returned its connection
C28_ReturnedUnlessClosed ==
    /\ [](checked_out <= 1)
    /\ []((~Storing /\ checked_out > 0) => postgres = "closed")
    /\ [][\A t \in TaskIds :
              (tasks[t].pc = "stored" /\ tasks'[t].pc # "stored"
                   /\ postgres = "open") =>
                  checked_out' = 0]_vars
    /\ [][checked_out' > checked_out => postgres = "open"]_vars

\* a storage call that committed its batch and returned its connection
C28_StoredAndReturned ==
    /\ ~Storing
    /\ checked_out = 0
    /\ postgres = "open"
    /\ flushed # <<>> /\ flushed[Len(flushed)].stored
    /\ \E t \in TaskIds : tasks[t].pc = "wait"

\* a storage call ended on a pool the signal handler closed during the
\* call: its connection was never put back
C28_NeverReturned ==
    /\ ~Storing
    /\ checked_out = 1
    /\ postgres = "closed"
    /\ signal_handler.received > 0

(***************************************************************************)
(* Rejected points and the queue                                           *)
(***************************************************************************)
\* the last call of producer p has returned False
ReturnedFalse(p) ==
    prod[p].pc = "idle" /\ prod[p].returns > 0 /\ ~prod[p].result

\* the points that have entered the queue and are in it, in a batch or in a
\* flushed batch
Held == Len(data_queue) + Len(TaskBatches(1)) + Len(Concat(flushed))

\* C29: a point for which ingest returned False is not in the queue, in a
\* batch or in a flushed batch; every point that is there was counted in
\* valid_points.
C29_RejectedNeverQueued ==
    /\ \A p \in Producers :
           ReturnedFalse(p) => Holders(<<p, prod[p].calls>>) = {}
    /\ Held <= metrics.valid_points

\* what holds: a point the validator turned away, or one that failed it, is
\* never enqueued; only a valid point whose topic cannot be built is
\* enqueued and then counted as rejected
C29_OnlyTopicFailuresQueued ==
    /\ \A p \in Producers :
           (ReturnedFalse(p) /\ Holders(<<p, prod[p].calls>>) # {}) =>
               (IsValidPoint(prod[p].arg) /\ TopicRaises(prod[p].arg))
    /\ Held <= metrics.valid_points + metrics.rejected_points - tally.invalid

\* ingest returned False for a point that is in the queue, and the queue
\* holds more points than valid_points counts
C29_QueuedButRejected ==
    \E p \in Producers :
        /\ ReturnedFalse(p)
        /\ Places(<<p, prod[p].calls>>, data_queue) # {}
        /\ Held > metrics.valid_points
        /\ metrics.rejected_points > 0

\* an invalid point was rejected and is nowhere, next to an accepted one
\* that is queued
C29_RejectedAndAbsent ==
    \E p \in Producers :
        /\ ReturnedFalse(p)
        /\ IsInvalidPoint(prod[p].arg)
        /\ Holders(<<p, prod[p].calls>>) = {}
        /\ Held = metrics.valid_points /\ Held > 0

(***************************************************************************)
(* Use of closed sinks                                                     *)
(***************************************************************************)
\* this step calls publish_data on the streaming sink
PublishCalled == Len(publish_calls') > Len(publish_calls)

\* this step calls store_batch on the storage sink
StoreCalled == Len(flushed') > Len(flushed) /\ postgres # "none"

\* C30: no publish and no store_batch is called on a sink that stop() has
\* closed, and while the pipeline is running the sinks it opened at
\* construction are open.
C30_SinksUsedOnlyWhileOpen ==
    /\ [][PublishCalled => kafka # "closed"]_vars
    /\ [][StoreCalled => postgres # "closed"]_vars
    /\ [](running =>
              /\ config.kafka = "open" => kafka = "open"
              /\ config.postgres = "open" => postgres = "open")

\* what holds: a closed sink takes nothing (the call on it fails), a sink is
\* closed by stop() only, and nothing opens a closed sink again
C30_ClosedSinkTakesNothing ==
    /\ [][(PublishCalled /\ kafka = "closed") =>
              ~publish_calls'[Len(publish_calls')].result]_vars
    /\ [][(StoreCalled /\ postgres = "closed") =>
              (market_data' = market_data
                   /\ ~flushed'[Len(flushed')].stored)]_vars
    /\ [][(kafka' # kafka \/ postgres' # postgres) =>
              (running /\ ~running')]_vars
    /\ [][/\ kafka = "closed" => kafka' = "closed"
          /\ postgres = "closed" => postgres' = "closed"]_vars

\* after stop() and start() the pipeline runs with both sinks closed, and a
\* point was published to and a batch offered to the closed sinks
C30_RunningWithClosedSinks ==
    /\ running
    /\ last_call = "start"
    /\ kafka = "closed" /\ postgres = "closed"
    /\ publish_calls # <<>> /\ ~publish_calls[Len(publish_calls)].result
    /\ flushed # <<>> /\ ~flushed[Len(flushed)].stored
    /\ market_data # <<>>

=============================================================================
